---------------------------- MODULE Spec2Model ----------------------------
(***************************************************************************)
(* A model of the face-hash examples of face-api.js:                       *)
(*   examples/examples-nodejs/faceHash.ts              (Digest Generator,  *)
(*                                                      Comparator)        *)
(*   examples/examples-nodejs/faceValidationSystem.js  (Record Store, in   *)
(*                                  memory and MongoDB, Validation System) *)
(*                                                                         *)
(* Representation.                                                         *)
(*   - A JavaScript string is a sequence of one-character strings.         *)
(*   - A descriptor (Float32Array) is a sequence of integers k, each       *)
(*     standing for the float k/8.  Every such value is exact in float32   *)
(*     and in double, and so is k/8 * 1000 = 125 * k.                      *)
(*   - A JavaScript number that is a quotient of two integers is a record  *)
(*     [num, den] in lowest terms; den = 0 is NaN (0/0).                   *)
(*   - undefined / null / an absent optional field is the string "none"    *)
(*     held in a record that says which kind of value it is.               *)
(***************************************************************************)
EXTENDS Integers, Sequences, FiniteSets, TLC

(***************************************************************************)
(* Bounds of the model.                                                    *)
(***************************************************************************)
\* longest descriptor enumerated exhaustively (besides the long ones below)
MaxDescLen == 2
\* length caps 0..MaxCap are enumerated, besides those of run() (16, 32, 64)
MaxCap == 5
\* longest digest string handed directly to the comparator
MaxHashLen == 3
\* the clock (new Date()) runs from 0 to MaxClock
MaxClock == 1

(***************************************************************************)
(* Program constants.                                                      *)
(***************************************************************************)
\* descriptor.slice(0, 16)
SliceLen == 16
\* padStart(8, '0') of the rolling hash
SimplePad == 8
\* padStart(2, '0') of each byte of the suffix
BytePad == 2
\* padStart(4, '0') of each value of the hex hash
HexPad == 4
\* (hash << 5)
ShiftBits == 5
\* % 256
ByteMod == 256
\* val * 1000
Scale == 1000

(***************************************************************************)
(* State.                                                                  *)
(***************************************************************************)
VARIABLES
  \* --- a run of the Digest Generator (faceHash.ts, run) ---
  resultDescriptor,  \* result.descriptor
  hashOptions,    \* the options under study
  hashFirst,      \* what the first generateFaceHash(descriptor, options) returned
  hashLast,       \* what the latest later generateFaceHash(descriptor, options) returned
  lastOptions,    \* the options of the latest generateFaceHash call, whichever
  otherHash,      \* what the latest call with other options returned
  between,        \* a call with other options was made after the first call
  allHashes,      \* what generateAllHashes(descriptor) returned
  runSimilarity,  \* compareHashes(hash1, hash2) of run
  \* --- a call of the Comparator ---
  inHash1,
  inHash2,
  cmpResult,
  \* --- the Record Store and the Validation System (faceValidationSystem.js) ---
  program,        \* which of the two scripts of the file runs: "memory" or "mongo"
  faces,          \* FaceDatabase.faces: the Map's entries, in insertion order
  collection,     \* the documents of the MongoDB collection 'users', in natural order
  client,         \* MongoDBFaceDatabase.client: "null", "created", "connected", "closed"
  handle,         \* whether MongoDBFaceDatabase.collection is set (not null)
  clock,          \* what new Date() reads
  call,           \* the latest call: its operation and arguments
  ret,            \* what the latest call returned or threw
  lastSaved,      \* history: per userId, the record the latest saveFaceHash returned,
                  \* if the user was not removed since
  \* --- demonstrateMongoDBSystem ---
  pc,             \* the statement of demonstrateMongoDBSystem that runs next
  thrownAt,       \* history: the statement of the try block that threw
  shutdowns,      \* history: the number of calls of validationSystem.shutdown()
  \* --- a validateFaceHash of the MongoDB store that other calls overlap ---
  inflight,       \* the validation between its findOne and its updateOne
  overlap         \* history: what another call did to the record of the validated
                  \* userId between the two: "none", "removed", "saved"

genVars == << resultDescriptor, hashOptions, hashFirst, hashLast, lastOptions, otherHash,
              between, allHashes, runSimilarity >>

cmpVars == << inHash1, inHash2, cmpResult >>

storeVars == << program, faces, collection, client, handle, clock, call, ret, lastSaved >>

demoVars == << pc, thrownAt, shutdowns >>

raceVars == << inflight, overlap >>

vars == << genVars, cmpVars, storeVars, demoVars, raceVars >>

(***************************************************************************)
(* JavaScript numbers that are quotients of integers.                      *)
(***************************************************************************)
RECURSIVE GCD(_, _)
GCD(a, b) == IF b = 0 THEN a ELSE GCD(b, a % b)

\* the JavaScript number num / den of two non-negative integers; 0 / 0 is NaN
Quotient(num, den) ==
  IF den = 0 THEN [num |-> 0, den |-> 0]
  ELSE [num |-> num \div GCD(num, den), den |-> den \div GCD(num, den)]

NaN == [num |-> 0, den |-> 0]

Zero == [num |-> 0, den |-> 1]

One == [num |-> 1, den |-> 1]

\* a >= b on JavaScript numbers: false when either is NaN
GreaterOrEqual(a, b) ==
  /\ a.den # 0
  /\ b.den # 0
  /\ a.num * b.den >= b.num * a.den

\* a > b on JavaScript numbers: false when either is NaN
Greater(a, b) ==
  /\ a.den # 0
  /\ b.den # 0
  /\ a.num * b.den > b.num * a.den

\* an optional string
NoString == [some |-> FALSE, val |-> << >>]

SomeString(s) == [some |-> TRUE, val |-> s]

\* an optional number
NoNumber == [some |-> FALSE, val |-> Zero]

SomeNumber(x) == [some |-> TRUE, val |-> x]

\* an optional generateAllHashes result
NoHashes ==
  [some |-> FALSE, simple |-> << >>, sha256 |-> << >>, md5 |-> << >>,
   base64 |-> << >>, hex |-> << >>]

SomeHashes(r) ==
  [some |-> TRUE, simple |-> r.simple, sha256 |-> r.sha256, md5 |-> r.md5,
   base64 |-> r.base64, hex |-> r.hex]

(***************************************************************************)
(* Strings and numbers of JavaScript.                                      *)
(***************************************************************************)
HexDigits == <<"0","1","2","3","4","5","6","7","8","9","a","b","c","d","e","f">>

DecDigits == <<"0","1","2","3","4","5","6","7","8","9">>

Base64Alphabet ==
  << "A","B","C","D","E","F","G","H","I","J","K","L","M",
     "N","O","P","Q","R","S","T","U","V","W","X","Y","Z",
     "a","b","c","d","e","f","g","h","i","j","k","l","m",
     "n","o","p","q","r","s","t","u","v","w","x","y","z",
     "0","1","2","3","4","5","6","7","8","9","+","/" >>

Abs(n) == IF n < 0 THEN -n ELSE n

Min(a, b) == IF a < b THEN a ELSE b

\* String.prototype.charCodeAt, for the characters a serialized descriptor holds
charCodeAt(c) ==
  CASE c = "," -> 44
    [] c = "-" -> 45
    [] c = "." -> 46
    [] OTHER -> 47 + (CHOOSE i \in 1..10 : DecDigits[i] = c)

\* Number.prototype.toString(radix) of a non-negative integer
RECURSIVE toStringRadix(_, _)
toStringRadix(n, radix) ==
  IF n < radix THEN << HexDigits[n + 1] >>
  ELSE toStringRadix(n \div radix, radix) \o << HexDigits[(n % radix) + 1] >>

\* String.prototype.padStart(targetLength, padChar)
RECURSIVE padStart(_, _, _)
padStart(s, targetLength, padChar) ==
  IF Len(s) >= targetLength THEN s
  ELSE padStart(<< padChar >> \o s, targetLength, padChar)

\* String.prototype.substring(0, end) for 0 <= end
substring0(s, end) == SubSeq(s, 1, Min(end, Len(s)))

\* the decimal digits of the fraction (k mod 8)/8 = 0.125 * (k mod 8), shortest form
FractionDigits(eighths) ==
  CASE eighths = 1 -> << "1","2","5" >>
    [] eighths = 2 -> << "2","5" >>
    [] eighths = 3 -> << "3","7","5" >>
    [] eighths = 4 -> << "5" >>
    [] eighths = 5 -> << "6","2","5" >>
    [] eighths = 6 -> << "7","5" >>
    [] eighths = 7 -> << "8","7","5" >>
    [] OTHER -> << >>

\* Number.prototype.toString() of the float k/8, as Array.prototype.join applies it
NumberToString(k) ==
  LET mag == Abs(k)
      int == toStringRadix(mag \div 8, 10)
      frac == FractionDigits(mag % 8)
  IN  (IF k < 0 THEN << "-" >> ELSE << >>)
      \o int
      \o (IF frac = << >> THEN << >> ELSE << "." >> \o frac)

\* Array.from(descriptor).join(',')
RECURSIVE join(_)
join(descriptor) ==
  IF Len(descriptor) = 0 THEN << >>
  ELSE IF Len(descriptor) = 1 THEN NumberToString(descriptor[1])
  ELSE NumberToString(descriptor[1]) \o << "," >> \o join(Tail(descriptor))

\* Math.abs(val * 1000) for the float val = k/8: the integer 125 * |k|
AbsScaled(k) == Abs((k * Scale) \div 8)

(***************************************************************************)
(* 32-bit integers.  TLC's integers are 32 bits wide themselves, so a      *)
(* 32-bit pattern is kept as two 16-bit halves <<hi, lo>>.                 *)
(***************************************************************************)
Half == 2 ^ 16

\* ToInt32(x) << 5, as a 32-bit pattern
ShiftLeft(h, bits) ==
  LET lo == h[2] * (2 ^ bits)
      hi == h[1] * (2 ^ bits) + (lo \div Half)
  IN  << hi % Half, lo % Half >>

\* 32-bit pattern of a - b
Sub32(a, b) ==
  LET lo == a[2] - b[2]
      borrow == IF lo < 0 THEN 1 ELSE 0
      hi == a[1] - b[1] - borrow
  IN  << (hi + Half) % Half, (lo + Half) % Half >>

\* 32-bit pattern of a + n for a small non-negative integer n
Add32(a, n) ==
  LET lo == a[2] + n
      hi == a[1] + (lo \div Half)
  IN  << hi % Half, lo % Half >>

\* whether the pattern is a negative int32
IsNegative32(h) == h[1] >= Half \div 2

\* Math.abs of the int32 with that pattern, as a 32-bit magnitude (2^31 for the minimum)
Abs32(h) ==
  IF ~IsNegative32(h) THEN h
  ELSE IF h[2] = 0 THEN << (Half - h[1]) % Half, 0 >>
  ELSE << Half - 1 - h[1], Half - h[2] >>

\* toString(16) of a magnitude below 2^32
toStringHex32(h) ==
  IF h[1] = 0 THEN toStringRadix(h[2], 16)
  ELSE toStringRadix(h[1], 16) \o padStart(toStringRadix(h[2], 16), 4, "0")

(***************************************************************************)
(* FaceHashGenerator (faceHash.ts).                                        *)
(***************************************************************************)
\* a plausible slip: hash << 4, that is 15 * hash + char
RECURSIVE rollingHash_shift4(_, _)
rollingHash_shift4(hash, str) ==
  IF str = << >> THEN hash
  ELSE LET next == Add32(Sub32(ShiftLeft(hash, ShiftBits - 1), hash), charCodeAt(Head(str)))
       IN  IF next[1] >= 0 THEN rollingHash_shift4(next, Tail(str)) ELSE next

\* the loop of generateSimpleHash over descriptorString, from hash = 0
RECURSIVE rollingHash(_, _)
rollingHash(hash, str) ==
  IF str = << >> THEN hash
  ELSE LET next == Add32(Sub32(ShiftLeft(hash, ShiftBits), hash), charCodeAt(Head(str)))
       IN  \* (the test makes TLC evaluate next before it recurses)
           IF next[1] >= 0 THEN rollingHash(next, Tail(str)) ELSE next

\* descriptor.slice(0, 16).reduce(acc + (Math.abs(val*1000) % 256).toString(16).padStart(2,'0'), '')
RECURSIVE additionalHash(_)
additionalHash(vals) ==
  IF vals = << >> THEN << >>
  ELSE padStart(toStringRadix(AbsScaled(Head(vals)) % ByteMod, 16), BytePad, "0")
       \o additionalHash(Tail(vals))

generateSimpleHash(descriptor) ==
  LET descriptorString == join(descriptor)
      hash == rollingHash(<< 0, 0 >>, descriptorString)
      hexHash == padStart(toStringHex32(Abs32(hash)), SimplePad, "0")
  IN  hexHash \o additionalHash(SubSeq(descriptor, 1, Min(SliceLen, Len(descriptor))))

(***************************************************************************)
(* crypto.createHash(alg).update(s).digest('hex') is Node's library, not   *)
(* code of this repository.  It is modelled by what the examples rely on:  *)
(* a fixed function of the algorithm and of the characters of s whose      *)
(* value is 2 * (digest bytes) lowercase hexadecimal digits.  The mixing   *)
(* below is a stand-in for the compression function.                       *)
(***************************************************************************)
DigestHexLen(alg) == IF alg = "sha256" THEN 64 ELSE 32

RECURSIVE Absorb(_, _)
Absorb(s, str) ==
  IF str = << >> THEN s
  ELSE LET next == (s * 33 + charCodeAt(Head(str)) + 1) % 65521
       IN  IF next >= 0 THEN Absorb(next, Tail(str)) ELSE next

createHashDigestHex(alg, str) ==
  LET s == Absorb(DigestHexLen(alg) + 5381, str)
  IN  [i \in 1..DigestHexLen(alg) |->
         HexDigits[(((s + i * i) * (i + 2) + (s \div (i + 1))) % 16) + 1]]

generateSHA256Hash(descriptor) == createHashDigestHex("sha256", join(descriptor))

generateMD5Hash(descriptor) == createHashDigestHex("md5", join(descriptor))

\* Buffer.from(s).toString('base64'): three bytes to four characters, '=' padding
RECURSIVE base64(_)
base64(bytes) ==
  IF Len(bytes) = 0 THEN << >>
  ELSE IF Len(bytes) = 1 THEN
    << Base64Alphabet[(bytes[1] \div 4) + 1],
       Base64Alphabet[((bytes[1] % 4) * 16) + 1], "=", "=" >>
  ELSE IF Len(bytes) = 2 THEN
    << Base64Alphabet[(bytes[1] \div 4) + 1],
       Base64Alphabet[((bytes[1] % 4) * 16 + bytes[2] \div 16) + 1],
       Base64Alphabet[((bytes[2] % 16) * 4) + 1], "=" >>
  ELSE
    << Base64Alphabet[(bytes[1] \div 4) + 1],
       Base64Alphabet[((bytes[1] % 4) * 16 + bytes[2] \div 16) + 1],
       Base64Alphabet[((bytes[2] % 16) * 4 + bytes[3] \div 64) + 1],
       Base64Alphabet[(bytes[3] % 64) + 1] >>
    \o base64(SubSeq(bytes, 4, Len(bytes)))

generateBase64Hash(descriptor) ==
  LET descriptorString == join(descriptor)
  IN  base64([i \in 1..Len(descriptorString) |-> charCodeAt(descriptorString[i])])

RECURSIVE generateHexHash(_)
generateHexHash(descriptor) ==
  IF descriptor = << >> THEN << >>
  ELSE padStart(toStringRadix(AbsScaled(Head(descriptor)), 16), HexPad, "0")
       \o generateHexHash(Tail(descriptor))

(***************************************************************************)
(* HashOptions: [type, length].  length = -1 stands for an absent length   *)
(* (undefined); NoOptions is the omitted second argument, which the        *)
(* default parameter replaces by { type: 'simple' }.                       *)
(***************************************************************************)
NoLength == 0 - 1

NoOptions == [type |-> "none", length |-> NoLength]

DefaultOptions == [type |-> "simple", length |-> NoLength]

\* a plausible slip: the default of the switch falls to another algorithm
hashOfType_defaultHex(descriptor, type) ==
  CASE type = "simple" -> generateSimpleHash(descriptor)
    [] type = "sha256" -> generateSHA256Hash(descriptor)
    [] type = "md5" -> generateMD5Hash(descriptor)
    [] type = "base64" -> generateBase64Hash(descriptor)
    [] OTHER -> generateHexHash(descriptor)

\* the switch of generateFaceHash
hashOfType(descriptor, type) ==
  CASE type = "simple" -> generateSimpleHash(descriptor)
    [] type = "sha256" -> generateSHA256Hash(descriptor)
    [] type = "md5" -> generateMD5Hash(descriptor)
    [] type = "base64" -> generateBase64Hash(descriptor)
    [] type = "hex" -> generateHexHash(descriptor)
    [] OTHER -> generateSimpleHash(descriptor)

\* if (options.length && hash.length > options.length) hash = hash.substring(0, options.length)
\* (an absent length and the length 0 are both falsy)
applyLength(hash, length) ==
  IF length # NoLength /\ length # 0 /\ Len(hash) > length
  THEN substring0(hash, length)
  ELSE hash

\* a plausible slip: the options object is kept between calls, so that a call
\* without a length inherits the length of the call before it
generateFaceHash_keptOptions(descriptor, options) ==
  LET opts == IF options = NoOptions THEN DefaultOptions ELSE options
      length == IF opts.length = NoLength THEN lastOptions.length ELSE opts.length
  IN  applyLength(hashOfType(descriptor, opts.type), length)

generateFaceHash(descriptor, options) ==
  LET opts == IF options = NoOptions THEN DefaultOptions ELSE options
  IN  applyLength(hashOfType(descriptor, opts.type), opts.length)

generateAllHashes(descriptor) ==
  [ simple |-> generateSimpleHash(descriptor),
    sha256 |-> generateSHA256Hash(descriptor),
    md5 |-> generateMD5Hash(descriptor),
    base64 |-> generateBase64Hash(descriptor),
    hex |-> generateHexHash(descriptor) ]

(***************************************************************************)
(* compareHashes.  The same text is FaceHashGenerator.compareHashes        *)
(* (faceHash.ts), FaceDatabase.compareHashes and                           *)
(* MongoDBFaceDatabase.compareHashes (faceValidationSystem.js).            *)
(***************************************************************************)
\* the loop: for (let i = 0; i < hash1.length; i++) if (hash1[i] === hash2[i]) matches++
\* (i counts from 1 here; hash2[i] beyond its end is undefined and equals nothing)
RECURSIVE countMatches(_, _, _)
countMatches(hash1, hash2, i) ==
  IF i > Len(hash1) THEN 0
  ELSE (IF i <= Len(hash2) /\ hash1[i] = hash2[i] THEN 1 ELSE 0)
       + countMatches(hash1, hash2, i + 1)

\* a plausible slip: the loop starts one position late
compareHashes_skipFirst(hash1, hash2) ==
  IF Len(hash1) # Len(hash2) THEN Zero
  ELSE Quotient(countMatches(hash1, hash2, 2), Len(hash1))

\* a plausible slip: the loop stops one position early (i < hash1.length - 1)
compareHashes_lastSkipped(hash1, hash2) ==
  IF Len(hash1) # Len(hash2) THEN Zero
  ELSE Quotient(countMatches(SubSeq(hash1, 1, Len(hash1) - 1), hash2, 1), Len(hash1))

\* a plausible slip: no early return for different lengths
compareHashes_noLengthCheck(hash1, hash2) ==
  Quotient(countMatches(hash1, hash2, 1), Len(hash1))

compareHashes(hash1, hash2) ==
  IF Len(hash1) # Len(hash2) THEN Zero
  ELSE Quotient(countMatches(hash1, hash2, 1), Len(hash1))

(***************************************************************************)
(* Values of the Record Store.                                             *)
(*   metadata: the open key-value mapping, kept to the three keys the      *)
(*   examples write; "none" and -1 stand for an absent key.                *)
(*   A timestamp (new Date(), toISOString()) is the reading of the clock.  *)
(***************************************************************************)
NoMetadata == [name |-> "none", descriptorLength |-> 0 - 1, confidence |-> 0 - 1]

\* an optional record
NoRecord == [some |-> FALSE]

SomeRecord(record) == [some |-> TRUE, val |-> record]

\* what a call returned or threw; each kind of result has field names of its own,
\* so that two results of unlike kinds are unequal records
RetNone == [kind |-> "none"]

RetUndefined == [kind |-> "undefined"]

RetNull == [kind |-> "null"]

RetRecord(record) == [kind |-> "record", val |-> record]

RetBool(b) == [kind |-> "bool", flag |-> b]

RetList(list) == [kind |-> "list", list |-> list]

RetValidation(valid, similarity, threshold, reason) ==
  [kind |-> "validation", valid |-> valid, similarity |-> similarity,
   threshold |-> threshold, reason |-> reason]

RetMatch(userId, similarity, metadata) ==
  [kind |-> "match", userId |-> userId, similarity |-> similarity,
   metadata |-> metadata]

RetThrow(message) == [kind |-> "throw", message |-> message]

UserNotFound == "Usuário não encontrado"

HashValid == "Hash válido"

HashMismatch == "Hash não corresponde"

NoFaceDetected == "Nenhuma face detectada na imagem"

\* an error of the storage layer (the MongoDB driver), whatever its message
StorageError == "MongoError"

\* this.collection is null: a method call on it throws a TypeError
NullCollection == "TypeError: Cannot read properties of null"

\* validateFaceHash(userId, inputHash, threshold = 0.8)
DefaultThreshold == Quotient(4, 5)

\* threshold = 0.8 applies when the argument is undefined
thresholdOrDefault(threshold) ==
  IF threshold.some THEN threshold.val ELSE DefaultThreshold

(***************************************************************************)
(* A JavaScript Map: a sequence of [key, value] entries in insertion order.*)
(***************************************************************************)
MapIndex(map, key) ==
  IF \E i \in 1..Len(map) : map[i].key = key
  THEN CHOOSE i \in 1..Len(map) :
         /\ map[i].key = key
         /\ \A j \in 1..(i - 1) : map[j].key # key
  ELSE 0

MapHas(map, key) == MapIndex(map, key) # 0

\* a plausible slip: a list of entries that is appended to without a lookup
MapSet_append(map, key, value) == Append(map, [key |-> key, value |-> value])

\* Map.prototype.set: an existing key keeps its place
MapSet(map, key, value) ==
  IF MapHas(map, key)
  THEN [map EXCEPT ![MapIndex(map, key)] = [key |-> key, value |-> value]]
  ELSE Append(map, [key |-> key, value |-> value])

RemoveAt(seq, i) == SubSeq(seq, 1, i - 1) \o SubSeq(seq, i + 1, Len(seq))

\* Map.prototype.delete
MapDelete(map, key) ==
  IF MapHas(map, key) THEN RemoveAt(map, MapIndex(map, key)) ELSE map

\* Array.from(map.keys())
MapKeys(map) == [i \in 1..Len(map) |-> map[i].key]

(***************************************************************************)
(* FaceDatabase (in memory).  Each method is given the Map and returns the *)
(* Map it leaves and what it returns: [faces, ret].                        *)
(***************************************************************************)
FaceDatabase_saveFaceHash(map, userId, hash, metadata, now) ==
  LET faceRecord ==
        [userId |-> userId, hash |-> hash, metadata |-> metadata,
         createdAt |-> now, lastUsed |-> now]
  IN  [faces |-> MapSet(map, userId, faceRecord), ret |-> RetRecord(faceRecord)]

FaceDatabase_getFaceHash(map, userId) ==
  [faces |-> map,
   ret |-> IF MapHas(map, userId)
           THEN RetRecord(map[MapIndex(map, userId)].value)
           ELSE RetUndefined]

\* a plausible slip: an unknown userId is thrown as an error
FaceDatabase_validateFaceHash_throwsOnMissing(map, userId, inputHash, threshold, now) ==
  IF ~MapHas(map, userId)
  THEN [faces |-> map, ret |-> RetThrow(UserNotFound)]
  ELSE
    LET i == MapIndex(map, userId)
        storedRecord == map[i].value
        similarity == compareHashes(storedRecord.hash, inputHash)
        isValid == GreaterOrEqual(similarity, thresholdOrDefault(threshold))
    IN  [faces |-> IF isValid
                   THEN [map EXCEPT ![i].value.lastUsed = now]
                   ELSE map,
         ret |-> RetValidation(isValid, SomeNumber(similarity),
                               SomeNumber(thresholdOrDefault(threshold)),
                               IF isValid THEN HashValid ELSE HashMismatch)]

\* a plausible slip: similarity > threshold
FaceDatabase_validateFaceHash_strict(map, userId, inputHash, threshold, now) ==
  IF ~MapHas(map, userId)
  THEN [faces |-> map, ret |-> RetValidation(FALSE, NoNumber, NoNumber, UserNotFound)]
  ELSE
    LET i == MapIndex(map, userId)
        storedRecord == map[i].value
        similarity == compareHashes(storedRecord.hash, inputHash)
        isValid == Greater(similarity, thresholdOrDefault(threshold))
    IN  [faces |-> IF isValid
                   THEN [map EXCEPT ![i].value.lastUsed = now]
                   ELSE map,
         ret |-> RetValidation(isValid, SomeNumber(similarity),
                               SomeNumber(thresholdOrDefault(threshold)),
                               IF isValid THEN HashValid ELSE HashMismatch)]

FaceDatabase_validateFaceHash(map, userId, inputHash, threshold, now) ==
  IF ~MapHas(map, userId)
  THEN [faces |-> map, ret |-> RetValidation(FALSE, NoNumber, NoNumber, UserNotFound)]
  ELSE
    LET i == MapIndex(map, userId)
        storedRecord == map[i].value
        similarity == compareHashes(storedRecord.hash, inputHash)
        isValid == GreaterOrEqual(similarity, thresholdOrDefault(threshold))
    IN  [faces |-> IF isValid
                   THEN [map EXCEPT ![i].value.lastUsed = now]
                   ELSE map,
         ret |-> RetValidation(isValid, SomeNumber(similarity),
                               SomeNumber(thresholdOrDefault(threshold)),
                               IF isValid THEN HashValid ELSE HashMismatch)]

FaceDatabase_listUsers(map) == [faces |-> map, ret |-> RetList(MapKeys(map))]

FaceDatabase_removeUser(map, userId) ==
  [faces |-> MapDelete(map, userId), ret |-> RetBool(MapHas(map, userId))]

(***************************************************************************)
(* The MongoDB collection: a sequence of documents in natural order, with  *)
(* the unique index on userId that connect() creates.                      *)
(***************************************************************************)
DocIndex(docs, userId) ==
  IF \E i \in 1..Len(docs) : docs[i].userId = userId
  THEN CHOOSE i \in 1..Len(docs) :
         /\ docs[i].userId = userId
         /\ \A j \in 1..(i - 1) : docs[j].userId # userId
  ELSE 0

\* collection.findOne({ userId })
findOne(docs, userId) ==
  IF DocIndex(docs, userId) # 0 THEN RetRecord(docs[DocIndex(docs, userId)]) ELSE RetNull

\* a plausible slip: $setOnInsert in place of $set, a document that exists is kept
updateOneUpsert_setOnInsert(docs, userId, faceRecord) ==
  IF DocIndex(docs, userId) # 0
  THEN docs
  ELSE Append(docs, faceRecord)

\* collection.updateOne({ userId }, { $set: faceRecord }, { upsert: true })
updateOneUpsert(docs, userId, faceRecord) ==
  IF DocIndex(docs, userId) # 0
  THEN [docs EXCEPT ![DocIndex(docs, userId)] = faceRecord]
  ELSE Append(docs, faceRecord)

\* a plausible slip: the update of lastUsed is given { upsert: true }
updateOneLastUsed_upsert(docs, userId, now) ==
  IF DocIndex(docs, userId) # 0
  THEN [docs EXCEPT ![DocIndex(docs, userId)].lastUsed = now,
                    ![DocIndex(docs, userId)].updatedAt = now]
  ELSE Append(docs, [userId |-> userId, hash |-> << >>, metadata |-> NoMetadata,
                     createdAt |-> now, lastUsed |-> now, updatedAt |-> now])

\* a plausible slip: the filter is left out, every document is updated
updateOneLastUsed_everyDocument(docs, userId, now) ==
  [i \in 1..Len(docs) |-> [docs[i] EXCEPT !.lastUsed = now, !.updatedAt = now]]

\* collection.updateOne({ userId }, { $set: { lastUsed, updatedAt } }): no upsert
updateOneLastUsed(docs, userId, now) ==
  IF DocIndex(docs, userId) # 0
  THEN [docs EXCEPT ![DocIndex(docs, userId)].lastUsed = now,
                    ![DocIndex(docs, userId)].updatedAt = now]
  ELSE docs

\* collection.deleteOne({ userId })
deleteOne(docs, userId) ==
  IF DocIndex(docs, userId) # 0 THEN RemoveAt(docs, DocIndex(docs, userId)) ELSE docs

\* a plausible slip: the acknowledgement is taken for the count
deletedCount_acknowledged(docs, userId) == 1

\* the deletedCount of deleteOne
deletedCount(docs, userId) == IF DocIndex(docs, userId) # 0 THEN 1 ELSE 0

\* collection.find({}, { projection: { userId: 1, createdAt: 1, metadata: 1 } }).toArray()
findProjected(docs) ==
  [i \in 1..Len(docs) |->
     [userId |-> docs[i].userId, createdAt |-> docs[i].createdAt,
      metadata |-> docs[i].metadata]]

(***************************************************************************)
(* MongoDBFaceDatabase.  Each method is given the documents and whether    *)
(* the storage layer answers (storageOk) and returns [docs, ret].  Every   *)
(* method catches the error, logs it and throws it again.  A method called *)
(* while this.collection is null throws a TypeError.                       *)
(***************************************************************************)
MongoDBFaceDatabase_saveFaceHash(docs, hasCollection, storageOk, userId, hash, metadata, now) ==
  LET faceRecord ==
        [userId |-> userId, hash |-> hash, metadata |-> metadata,
         createdAt |-> now, lastUsed |-> now, updatedAt |-> now]
  IN  IF ~hasCollection THEN [docs |-> docs, ret |-> RetThrow(NullCollection)]
      ELSE IF ~storageOk THEN [docs |-> docs, ret |-> RetThrow(StorageError)]
      ELSE [docs |-> updateOneUpsert(docs, userId, faceRecord),
            ret |-> RetRecord(faceRecord)]

\* a plausible slip: the catch block answers null instead of throwing the error again
MongoDBFaceDatabase_getFaceHash_swallow(docs, hasCollection, storageOk, userId) ==
  IF ~hasCollection THEN [docs |-> docs, ret |-> RetThrow(NullCollection)]
  ELSE IF ~storageOk THEN [docs |-> docs, ret |-> RetNull]
  ELSE [docs |-> docs, ret |-> findOne(docs, userId)]

MongoDBFaceDatabase_getFaceHash(docs, hasCollection, storageOk, userId) ==
  IF ~hasCollection THEN [docs |-> docs, ret |-> RetThrow(NullCollection)]
  ELSE IF ~storageOk THEN [docs |-> docs, ret |-> RetThrow(StorageError)]
  ELSE [docs |-> docs, ret |-> findOne(docs, userId)]

\* storageOk: the answer to findOne; updateOk: the answer to the later updateOne
MongoDBFaceDatabase_validateFaceHash(docs, hasCollection, storageOk, updateOk, userId, inputHash, threshold, now) ==
  LET found == MongoDBFaceDatabase_getFaceHash(docs, hasCollection, storageOk, userId).ret
  IN  IF found.kind = "throw" THEN [docs |-> docs, ret |-> found]
      ELSE IF found.kind = "null"
      THEN [docs |-> docs, ret |-> RetValidation(FALSE, NoNumber, NoNumber, UserNotFound)]
      ELSE
        LET storedRecord == found.val
            similarity == compareHashes(storedRecord.hash, inputHash)
            isValid == GreaterOrEqual(similarity, thresholdOrDefault(threshold))
        IN  IF isValid /\ ~updateOk
            THEN [docs |-> docs, ret |-> RetThrow(StorageError)]
            ELSE [docs |-> IF isValid THEN updateOneLastUsed(docs, userId, now)
                           ELSE docs,
                  ret |-> RetValidation(isValid, SomeNumber(similarity),
                                        SomeNumber(thresholdOrDefault(threshold)),
                                        IF isValid THEN HashValid ELSE HashMismatch)]

MongoDBFaceDatabase_listUsers(docs, hasCollection, storageOk) ==
  IF ~hasCollection THEN [docs |-> docs, ret |-> RetThrow(NullCollection)]
  ELSE IF ~storageOk THEN [docs |-> docs, ret |-> RetThrow(StorageError)]
  ELSE [docs |-> docs, ret |-> RetList(findProjected(docs))]

MongoDBFaceDatabase_removeUser(docs, hasCollection, storageOk, userId) ==
  IF ~hasCollection THEN [docs |-> docs, ret |-> RetThrow(NullCollection)]
  ELSE IF ~storageOk THEN [docs |-> docs, ret |-> RetThrow(StorageError)]
  ELSE [docs |-> deleteOne(docs, userId),
        ret |-> RetBool(deletedCount(docs, userId) > 0)]

\* a plausible slip: strictly above the threshold
RECURSIVE scanUsers_strict(_, _, _, _)
scanUsers_strict(users, from, inputHash, threshold) ==
  IF from > Len(users) THEN RetNull
  ELSE LET user == users[from]
           similarity == compareHashes(user.hash, inputHash)
       IN  IF Greater(similarity, threshold)
           THEN RetMatch(user.userId, similarity, user.metadata)
           ELSE scanUsers_strict(users, from + 1, inputHash, threshold)

\* a plausible variant: the scan keeps the last user at or above the threshold
RECURSIVE scanUsers_last(_, _, _, _)
scanUsers_last(users, from, inputHash, threshold) ==
  IF from > Len(users) THEN RetNull
  ELSE LET user == users[from]
           similarity == compareHashes(user.hash, inputHash)
           later == scanUsers_last(users, from + 1, inputHash, threshold)
       IN  IF later.kind = "match" THEN later
           ELSE IF GreaterOrEqual(similarity, threshold)
           THEN RetMatch(user.userId, similarity, user.metadata)
           ELSE RetNull

\* the loop of findUserByHash over users[from..]: the first user at or above the threshold
RECURSIVE scanUsers(_, _, _, _)
scanUsers(users, from, inputHash, threshold) ==
  IF from > Len(users) THEN RetNull
  ELSE LET user == users[from]
           similarity == compareHashes(user.hash, inputHash)
       IN  IF GreaterOrEqual(similarity, threshold)
           THEN RetMatch(user.userId, similarity, user.metadata)
           ELSE scanUsers(users, from + 1, inputHash, threshold)

MongoDBFaceDatabase_findUserByHash(docs, hasCollection, storageOk, inputHash, threshold) ==
  IF ~hasCollection THEN [docs |-> docs, ret |-> RetThrow(NullCollection)]
  ELSE IF ~storageOk THEN [docs |-> docs, ret |-> RetThrow(StorageError)]
  ELSE [docs |-> docs,
        ret |-> scanUsers(docs, 1, inputHash, thresholdOrDefault(threshold))]

(***************************************************************************)
(* Inputs.                                                                 *)
(***************************************************************************)
\* descriptor values: -0.25, 0.125, 1.5
DescVals == { -2, 1, 12 }

SeqsUpTo(S, n) == UNION { [1..m -> S] : m \in 0..n }

\* a descriptor of SliceLen + 1 values (each 0, 1 or 2), so that slice(0, 16) cuts
LongDescriptors == { [i \in 1..(SliceLen + 1) |-> 8 * ((i * 5) % 3)] }

\* the descriptor [-32.125, -4464.25], whose rolling hash ends at -2^31
MinHashDescriptors == { << -257, -35714 >> }

Descriptors == SeqsUpTo(DescVals, MaxDescLen) \cup LongDescriptors \cup MinHashDescriptors

\* 'other' is a type outside the union, which the switch's default takes
HashTypes == { "simple", "sha256", "md5", "base64", "hex", "other" }

\* for (const length of [16, 32, 64])
RunLengths == { 16, 32, 64 }

Lengths == (0..MaxCap) \cup RunLengths \cup { NoLength }

OptionsSet == [type : HashTypes, length : Lengths] \cup { NoOptions }

\* the calls made in between
InterleavedOptions == { NoOptions, [type |-> "hex", length |-> 1] }

HashChars == { "a", "b" }

HashStrings == SeqsUpTo(HashChars, MaxHashLen)

\* no validation is between its two requests
NoValidation ==
  [pc |-> "idle", userId |-> "none", hash |-> << >>, threshold |-> NoNumber,
   similarity |-> NoNumber]

RaceIdle ==
  /\ inflight = NoValidation
  /\ overlap = "none"

\* demonstrateMongoDBSystem is not called (the call is commented out in the script)
DemoIdle ==
  /\ pc = "idle"
  /\ thrownAt = "none"
  /\ shutdowns = 0

GenIdle ==
  /\ resultDescriptor = << >>
  /\ hashOptions = NoOptions
  /\ hashFirst = NoString
  /\ hashLast = NoString
  /\ lastOptions = NoOptions
  /\ otherHash = NoString
  /\ between = FALSE
  /\ allHashes = NoHashes
  /\ runSimilarity = NoNumber

CmpIdle ==
  /\ inHash1 = << >>
  /\ inHash2 = << >>
  /\ cmpResult = NoNumber

\* the identifiers of the demonstrations
UserIds == { "joao", "maria" }

\* digests handed directly to the store: 'aa', 'ab'
StoreHashes == { << "a", "a" >>, << "a", "b" >> }

MetadataSet == { NoMetadata, [NoMetadata EXCEPT !.name = "João Silva"] }

\* the metadata the demonstrations register a user with
RegisterMetadata == { [NoMetadata EXCEPT !.name = "João Silva"] }

\* the threshold argument: omitted, 0.5
ThresholdArgs == { NoNumber, SomeNumber(Quotient(1, 2)) }

\* a call: the operation and its arguments (those it does not take keep these values),
\* and what the storage layer does with the requests of the call: storageOk is FALSE
\* when it raises an error on the first request, updateOk is FALSE when it raises an
\* error on the updateOne of a validation
NoCall ==
  [op |-> "none", userId |-> "none", hash |-> << >>, metadata |-> NoMetadata,
   threshold |-> NoNumber, imagePath |-> "none", storageOk |-> TRUE, updateOk |-> TRUE]

StoreIdle ==
  /\ program = "none"
  /\ faces = << >>
  /\ collection = << >>
  /\ client = "null"
  /\ handle = FALSE
  /\ clock = 0
  /\ call = NoCall
  /\ ret = RetNone
  /\ lastSaved = [u \in UserIds |-> NoRecord]

(***************************************************************************)
(* The Digest Generator: calls of generateFaceHash on one descriptor.      *)
(***************************************************************************)
GenInit ==
  /\ resultDescriptor \in Descriptors
  /\ hashOptions \in OptionsSet
  /\ hashFirst = NoString
  /\ hashLast = NoString
  /\ lastOptions = NoOptions
  /\ otherHash = NoString
  /\ between = FALSE
  /\ allHashes = NoHashes
  /\ runSimilarity = NoNumber
  /\ CmpIdle
  /\ StoreIdle
  /\ DemoIdle
  /\ RaceIdle

\* const hash = FaceHashGenerator.generateFaceHash(result.descriptor, options)
CallGenerateFaceHash ==
  LET hash == generateFaceHash(resultDescriptor, hashOptions)
  IN  /\ hashFirst' = IF hashFirst.some THEN hashFirst ELSE SomeString(hash)
      /\ hashLast' = IF hashFirst.some THEN SomeString(hash) ELSE hashLast
      /\ lastOptions' = hashOptions
      /\ UNCHANGED << resultDescriptor, hashOptions, otherHash, between, allHashes, runSimilarity,
                      cmpVars, storeVars, demoVars, raceVars >>

\* a call with other options in between
CallGenerateOther ==
  \E o \in InterleavedOptions \ { hashOptions } :
    /\ otherHash' = SomeString(generateFaceHash(resultDescriptor, o))
    /\ lastOptions' = o
    /\ between' = (between \/ hashFirst.some)
    /\ UNCHANGED << resultDescriptor, hashOptions, hashFirst, hashLast, allHashes, runSimilarity,
                    cmpVars, storeVars, demoVars, raceVars >>

\* const allHashes = FaceHashGenerator.generateAllHashes(result.descriptor)
CallGenerateAllHashes ==
  /\ allHashes' = SomeHashes(generateAllHashes(resultDescriptor))
  /\ UNCHANGED << resultDescriptor, hashOptions, hashFirst, hashLast, lastOptions, otherHash,
                  between, runSimilarity, cmpVars, storeVars, demoVars, raceVars >>

\* hash1, hash2 of run and FaceHashGenerator.compareHashes(hash1, hash2)
CallCompareRun ==
  /\ hashFirst.some
  /\ hashLast.some
  /\ runSimilarity' = SomeNumber(compareHashes(hashFirst.val, hashLast.val))
  /\ UNCHANGED << resultDescriptor, hashOptions, hashFirst, hashLast, lastOptions, otherHash,
                  between, allHashes, cmpVars, storeVars, demoVars, raceVars >>

GenNext ==
  \/ CallGenerateFaceHash
  \/ CallGenerateOther
  \/ CallGenerateAllHashes
  \/ CallCompareRun

SpecGen == GenInit /\ [][GenNext]_vars

(***************************************************************************)
(* The Comparator: one call on two strings.                                *)
(***************************************************************************)
CmpInit ==
  /\ inHash1 \in HashStrings
  /\ inHash2 \in HashStrings
  /\ cmpResult = NoNumber
  /\ GenIdle
  /\ StoreIdle
  /\ DemoIdle
  /\ RaceIdle

CallCompareHashes ==
  /\ cmpResult' = SomeNumber(compareHashes(inHash1, inHash2))
  /\ UNCHANGED << inHash1, inHash2, genVars, storeVars, demoVars, raceVars >>

CmpNext == CallCompareHashes

SpecCompare == CmpInit /\ [][CmpNext]_vars

(***************************************************************************)
(* The Record Store: calls of the methods of FaceDatabase (program =       *)
(* "memory") and of MongoDBFaceDatabase (program = "mongo").  The file     *)
(* holds two scripts; a run is a run of one of them.  The collection of    *)
(* the MongoDB script starts empty.  A storage failure is a call the       *)
(* storage layer rejects: it leaves the documents as they were.            *)
(***************************************************************************)
StoreInit ==
  /\ program \in { "memory", "mongo" }
  /\ faces = << >>
  /\ collection = << >>
  /\ client = "null"
  /\ handle = FALSE
  /\ clock = 0
  /\ call = NoCall
  /\ ret = RetNone
  /\ lastSaved = [u \in UserIds |-> NoRecord]
  /\ GenIdle
  /\ CmpIdle
  /\ DemoIdle
  /\ RaceIdle

\* the images of the runs: two images of one face (the same descriptor, another
\* detection score), an image of another face, an image without a face and a path
\* that cannot be read
ImagePaths == { "bbt1.jpg", "bbt2.jpg", "blank.jpg", "missing.jpg" }

\* the images with a face
FaceImages == { "bbt1.jpg", "bbt1_copy.jpg", "bbt2.jpg" }

LoadError == "ENOENT"

loadImage(imagePath) == imagePath # "missing.jpg"

NoFace == [found |-> FALSE]

detectSingleFace(imagePath) ==
  CASE imagePath = "bbt1.jpg" -> [found |-> TRUE, descriptor |-> << 1, -2 >>, score |-> 95]
    [] imagePath = "bbt1_copy.jpg" -> [found |-> TRUE, descriptor |-> << 1, -2 >>, score |-> 90]
    [] imagePath = "bbt2.jpg" -> [found |-> TRUE, descriptor |-> << 12, 1 >>, score |-> 90]
    [] OTHER -> NoFace

\* the descriptor a registration hashed (none for a direct saveFaceHash)
RegisteredDescriptor(op) ==
  IF op.imagePath = "none" \/ ~detectSingleFace(op.imagePath).found
  THEN << >>
  ELSE detectSingleFace(op.imagePath).descriptor

\* the history of a userId after a call: a save that returned starts it (with the
\* descriptor that was hashed), a removal that returned ends it
SavedAfter(op, result) ==
  IF op.op \in { "saveFaceHash", "registerUser" } /\ result.kind = "record"
  THEN [lastSaved EXCEPT ![op.userId] =
          [some |-> TRUE, val |-> result.val, descriptor |-> RegisteredDescriptor(op)]]
  ELSE IF op.op = "removeUser" /\ result.kind = "bool"
  THEN [lastSaved EXCEPT ![op.userId] = NoRecord]
  ELSE lastSaved

\* a call on the in-memory store: result is [faces, ret]
MemoryCall(op, result) ==
  /\ program = "memory"
  /\ call' = op
  /\ faces' = result.faces
  /\ ret' = result.ret
  /\ lastSaved' = SavedAfter(op, result.ret)
  /\ UNCHANGED << program, collection, client, handle, clock, genVars, cmpVars, demoVars, raceVars >>

\* a call on the MongoDB store: result is [docs, ret]
MongoCall(op, result) ==
  /\ program = "mongo"
  /\ call' = op
  /\ collection' = result.docs
  /\ ret' = result.ret
  /\ lastSaved' = SavedAfter(op, result.ret)
  /\ UNCHANGED << program, faces, client, handle, clock, genVars, cmpVars, demoVars, raceVars >>

\* time passes between calls
Tick ==
  /\ clock < MaxClock
  /\ clock' = clock + 1
  /\ UNCHANGED << program, faces, collection, client, handle, call, ret, lastSaved,
                  genVars, cmpVars, demoVars, raceVars >>

SaveFaceHash ==
  \E userId \in UserIds, hash \in StoreHashes, metadata \in MetadataSet :
    MemoryCall([NoCall EXCEPT !.op = "saveFaceHash", !.userId = userId, !.hash = hash,
                              !.metadata = metadata],
               FaceDatabase_saveFaceHash(faces, userId, hash, metadata, clock))

GetFaceHash ==
  \E userId \in UserIds :
    MemoryCall([NoCall EXCEPT !.op = "getFaceHash", !.userId = userId],
               FaceDatabase_getFaceHash(faces, userId))

ValidateFaceHash ==
  \E userId \in UserIds, inputHash \in StoreHashes, threshold \in ThresholdArgs :
    MemoryCall([NoCall EXCEPT !.op = "validateFaceHash", !.userId = userId,
                              !.hash = inputHash, !.threshold = threshold],
               FaceDatabase_validateFaceHash(faces, userId, inputHash, threshold, clock))

ListUsers ==
  MemoryCall([NoCall EXCEPT !.op = "listUsers"], FaceDatabase_listUsers(faces))

RemoveUser ==
  \E userId \in UserIds :
    MemoryCall([NoCall EXCEPT !.op = "removeUser", !.userId = userId],
               FaceDatabase_removeUser(faces, userId))

\* what the storage layer may do with the first request of a call: without a
\* collection handle no request reaches it
StorageAnswers == IF handle THEN BOOLEAN ELSE { TRUE }

\* what it may do with the updateOne of a validation whose findOne it answered
UpdateAnswers(storageOk) == IF storageOk THEN BOOLEAN ELSE { TRUE }

\* MongoDBFaceDatabase.connect: client.connect() fails, or createIndex fails, or both answer
Connect ==
  /\ program = "mongo"
  /\ \/ /\ call' = [NoCall EXCEPT !.op = "connect", !.storageOk = FALSE]
        /\ client' = "created"
        /\ handle' = handle
        /\ ret' = RetThrow(StorageError)
     \/ /\ call' = [NoCall EXCEPT !.op = "connect", !.storageOk = FALSE]
        /\ client' = "connected"
        /\ handle' = TRUE
        /\ ret' = RetThrow(StorageError)
     \/ /\ call' = [NoCall EXCEPT !.op = "connect"]
        /\ client' = "connected"
        /\ handle' = TRUE
        /\ ret' = RetUndefined
  /\ UNCHANGED << program, faces, collection, clock, lastSaved, genVars, cmpVars, demoVars, raceVars >>

\* MongoDBFaceDatabase.disconnect: closes the client if there is one
Disconnect ==
  /\ program = "mongo"
  /\ call' = [NoCall EXCEPT !.op = "disconnect"]
  /\ client' = IF client # "null" THEN "closed" ELSE client
  /\ ret' = RetUndefined
  /\ UNCHANGED << program, faces, collection, handle, clock, lastSaved, genVars, cmpVars, demoVars, raceVars >>

MongoSaveFaceHash ==
  \E userId \in UserIds, hash \in StoreHashes, metadata \in MetadataSet,
     storageOk \in StorageAnswers :
    MongoCall([NoCall EXCEPT !.op = "saveFaceHash", !.userId = userId, !.hash = hash,
                             !.metadata = metadata,
                             !.storageOk = storageOk],
              MongoDBFaceDatabase_saveFaceHash(collection, handle, storageOk, userId, hash,
                                               metadata, clock))

MongoGetFaceHash ==
  \E userId \in UserIds, storageOk \in StorageAnswers :
    MongoCall([NoCall EXCEPT !.op = "getFaceHash", !.userId = userId,
                             !.storageOk = storageOk],
              MongoDBFaceDatabase_getFaceHash(collection, handle, storageOk, userId))

MongoValidateFaceHash ==
  \E userId \in UserIds, inputHash \in StoreHashes, threshold \in ThresholdArgs,
     storageOk \in StorageAnswers :
   \E updateOk \in UpdateAnswers(storageOk) :
    MongoCall([NoCall EXCEPT !.op = "validateFaceHash", !.userId = userId,
                             !.hash = inputHash, !.threshold = threshold,
                             !.storageOk = storageOk, !.updateOk = updateOk],
              MongoDBFaceDatabase_validateFaceHash(collection, handle, storageOk, updateOk,
                                                   userId, inputHash, threshold, clock))

MongoListUsers ==
  \E storageOk \in StorageAnswers :
    MongoCall([NoCall EXCEPT !.op = "listUsers",
                             !.storageOk = storageOk],
              MongoDBFaceDatabase_listUsers(collection, handle, storageOk))

MongoRemoveUser ==
  \E userId \in UserIds, storageOk \in StorageAnswers :
    MongoCall([NoCall EXCEPT !.op = "removeUser", !.userId = userId,
                             !.storageOk = storageOk],
              MongoDBFaceDatabase_removeUser(collection, handle, storageOk, userId))

MongoFindUserByHash ==
  \E inputHash \in StoreHashes, threshold \in ThresholdArgs, storageOk \in StorageAnswers :
    MongoCall([NoCall EXCEPT !.op = "findUserByHash", !.hash = inputHash,
                             !.threshold = threshold,
                             !.storageOk = storageOk],
              MongoDBFaceDatabase_findUserByHash(collection, handle, storageOk, inputHash,
                                                 threshold))

StoreNext ==
  \/ Tick
  \/ SaveFaceHash
  \/ GetFaceHash
  \/ ValidateFaceHash
  \/ ListUsers
  \/ RemoveUser
  \/ Connect
  \/ Disconnect
  \/ MongoSaveFaceHash
  \/ MongoGetFaceHash
  \/ MongoValidateFaceHash
  \/ MongoListUsers
  \/ MongoRemoveUser
  \/ MongoFindUserByHash

SpecStore == StoreInit /\ [][StoreNext]_vars

\* the Record Store under sequences of saveFaceHash and removeUser calls, observed
\* with getFaceHash and listUsers
SaveRemoveNext ==
  \/ Tick
  \/ SaveFaceHash
  \/ GetFaceHash
  \/ ListUsers
  \/ RemoveUser
  \/ Connect
  \/ Disconnect
  \/ MongoSaveFaceHash
  \/ MongoGetFaceHash
  \/ MongoListUsers
  \/ MongoRemoveUser

SpecSaveRemove == StoreInit /\ [][SaveRemoveNext]_vars

(***************************************************************************)
(* The Validation System: FaceValidationSystem over the in-memory store    *)
(* and FaceValidationSystem over the MongoDB store.                        *)
(*   An image is its path.  canvas.loadImage rejects a path it cannot      *)
(*   read; faceapi.detectSingleFace(...).withFaceDescriptor() answers      *)
(*   undefined for an image without a face, and the descriptor and the     *)
(*   detection score (in hundredths) otherwise.                            *)
(***************************************************************************)
generateValidationHash(descriptor) == generateSHA256Hash(descriptor)

\* the first half of registerUser, validateUser and recognizeUser: the digest of the
\* face in the image, or the error thrown
detectAndHash_emptyDescriptor(imagePath) ==
  IF ~loadImage(imagePath)
  THEN RetThrow(LoadError)
  ELSE LET result == detectSingleFace(imagePath)
       IN  IF ~result.found
           THEN [kind |-> "hash", hash |-> generateValidationHash(<< >>),
                 descriptorLength |-> 0, confidence |-> 0]
           ELSE [kind |-> "hash", hash |-> generateValidationHash(result.descriptor),
                 descriptorLength |-> Len(result.descriptor), confidence |-> result.score]

\* a plausible slip: the detection score is hashed along with the descriptor
detectAndHash_withScore(imagePath) ==
  IF ~loadImage(imagePath)
  THEN RetThrow(LoadError)
  ELSE LET result == detectSingleFace(imagePath)
       IN  IF ~result.found
           THEN RetThrow(NoFaceDetected)
           ELSE [kind |-> "hash",
                 hash |-> generateValidationHash(Append(result.descriptor, result.score)),
                 descriptorLength |-> Len(result.descriptor), confidence |-> result.score]

detectAndHash(imagePath) ==
  IF ~loadImage(imagePath)
  THEN RetThrow(LoadError)
  ELSE LET result == detectSingleFace(imagePath)
       IN  IF ~result.found
           THEN RetThrow(NoFaceDetected)
           ELSE [kind |-> "hash", hash |-> generateValidationHash(result.descriptor),
                 descriptorLength |-> Len(result.descriptor), confidence |-> result.score]

\* detection and hashing are functions of the image: their outcomes, tabulated
detected == [imagePath \in ImagePaths \cup FaceImages |-> detectAndHash(imagePath)]

\* { ...metadata, descriptorLength, confidence }
withDetection(metadata, face) ==
  [metadata EXCEPT !.descriptorLength = face.descriptorLength,
                   !.confidence = face.confidence]

FaceValidationSystem_registerUser(map, userId, imagePath, metadata, now) ==
  LET face == detected[imagePath]
  IN  IF face.kind = "throw"
      THEN [faces |-> map, ret |-> face]
      ELSE FaceDatabase_saveFaceHash(map, userId, face.hash,
                                     withDetection(metadata, face), now)

FaceValidationSystem_validateUser(map, userId, imagePath, now) ==
  LET face == detected[imagePath]
  IN  IF face.kind = "throw"
      THEN [faces |-> map, ret |-> face]
      ELSE FaceDatabase_validateFaceHash(map, userId, face.hash, NoNumber, now)

FaceValidationSystem_listRegisteredUsers(map) == FaceDatabase_listUsers(map)

FaceValidationSystem_removeUser(map, userId) == FaceDatabase_removeUser(map, userId)

MongoFaceValidationSystem_registerUser(docs, hasCollection, storageOk, userId, imagePath, metadata, now) ==
  LET face == detected[imagePath]
  IN  IF face.kind = "throw"
      THEN [docs |-> docs, ret |-> face]
      ELSE MongoDBFaceDatabase_saveFaceHash(docs, hasCollection, storageOk, userId,
                                            face.hash,
                                            withDetection(metadata, face), now)

MongoFaceValidationSystem_validateUser(docs, hasCollection, storageOk, updateOk, userId, imagePath, now) ==
  LET face == detected[imagePath]
  IN  IF face.kind = "throw"
      THEN [docs |-> docs, ret |-> face]
      ELSE MongoDBFaceDatabase_validateFaceHash(docs, hasCollection, storageOk, updateOk,
                                                userId, face.hash, NoNumber, now)

MongoFaceValidationSystem_recognizeUser(docs, hasCollection, storageOk, imagePath) ==
  LET face == detected[imagePath]
  IN  IF face.kind = "throw"
      THEN [docs |-> docs, ret |-> face]
      ELSE MongoDBFaceDatabase_findUserByHash(docs, hasCollection, storageOk,
                                              face.hash, NoNumber)

MongoFaceValidationSystem_listRegisteredUsers(docs, hasCollection, storageOk) ==
  MongoDBFaceDatabase_listUsers(docs, hasCollection, storageOk)

MongoFaceValidationSystem_removeUser(docs, hasCollection, storageOk, userId) ==
  MongoDBFaceDatabase_removeUser(docs, hasCollection, storageOk, userId)

\* a call that finds no face, or cannot load the image, makes no request
ImageStorageAnswers(imagePath) ==
  IF detected[imagePath].kind = "hash" THEN StorageAnswers ELSE { TRUE }

RegisterUserWith(images) ==
  \E userId \in UserIds, imagePath \in images, metadata \in RegisterMetadata :
    MemoryCall([NoCall EXCEPT !.op = "registerUser", !.userId = userId,
                              !.imagePath = imagePath, !.metadata = metadata],
               FaceValidationSystem_registerUser(faces, userId, imagePath, metadata, clock))

RegisterUser == RegisterUserWith(ImagePaths)

ValidateUserWith(images) ==
  \E userId \in UserIds, imagePath \in images :
    MemoryCall([NoCall EXCEPT !.op = "validateUser", !.userId = userId,
                              !.imagePath = imagePath],
               FaceValidationSystem_validateUser(faces, userId, imagePath, clock))

ValidateUser == ValidateUserWith(ImagePaths)

ListRegisteredUsers ==
  MemoryCall([NoCall EXCEPT !.op = "listRegisteredUsers"],
             FaceValidationSystem_listRegisteredUsers(faces))

SystemRemoveUser ==
  \E userId \in UserIds :
    MemoryCall([NoCall EXCEPT !.op = "removeUser", !.userId = userId],
               FaceValidationSystem_removeUser(faces, userId))

\* initialize awaits database.connect()
Initialize ==
  /\ program = "mongo"
  /\ \/ /\ call' = [NoCall EXCEPT !.op = "initialize", !.storageOk = FALSE]
        /\ client' = "created"
        /\ handle' = handle
        /\ ret' = RetThrow(StorageError)
     \/ /\ call' = [NoCall EXCEPT !.op = "initialize", !.storageOk = FALSE]
        /\ client' = "connected"
        /\ handle' = TRUE
        /\ ret' = RetThrow(StorageError)
     \/ /\ call' = [NoCall EXCEPT !.op = "initialize"]
        /\ client' = "connected"
        /\ handle' = TRUE
        /\ ret' = RetUndefined
  /\ UNCHANGED << program, faces, collection, clock, lastSaved, genVars, cmpVars, demoVars, raceVars >>

\* shutdown awaits database.disconnect()
Shutdown ==
  /\ program = "mongo"
  /\ call' = [NoCall EXCEPT !.op = "shutdown"]
  /\ client' = IF client # "null" THEN "closed" ELSE client
  /\ ret' = RetUndefined
  /\ UNCHANGED << program, faces, collection, handle, clock, lastSaved, genVars, cmpVars, demoVars, raceVars >>

MongoRegisterUserWith(images) ==
  \E userId \in UserIds, imagePath \in images, metadata \in RegisterMetadata :
   \E storageOk \in ImageStorageAnswers(imagePath) :
    MongoCall([NoCall EXCEPT !.op = "registerUser", !.userId = userId,
                             !.imagePath = imagePath, !.metadata = metadata,
                             !.storageOk = storageOk],
              MongoFaceValidationSystem_registerUser(collection, handle, storageOk, userId,
                                                     imagePath, metadata, clock))

MongoRegisterUser == MongoRegisterUserWith(ImagePaths)

MongoValidateUserWith(images) ==
  \E userId \in UserIds, imagePath \in images :
   \E storageOk \in ImageStorageAnswers(imagePath) :
   \E updateOk \in UpdateAnswers(storageOk) :
    MongoCall([NoCall EXCEPT !.op = "validateUser", !.userId = userId,
                             !.imagePath = imagePath,
                             !.storageOk = storageOk, !.updateOk = updateOk],
              MongoFaceValidationSystem_validateUser(collection, handle, storageOk, updateOk,
                                                     userId, imagePath, clock))

MongoValidateUser == MongoValidateUserWith(ImagePaths)

RecognizeUser ==
  \E imagePath \in ImagePaths :
   \E storageOk \in ImageStorageAnswers(imagePath) :
    MongoCall([NoCall EXCEPT !.op = "recognizeUser", !.imagePath = imagePath,
                             !.storageOk = storageOk],
              MongoFaceValidationSystem_recognizeUser(collection, handle, storageOk,
                                                      imagePath))

MongoListRegisteredUsers ==
  \E storageOk \in StorageAnswers :
    MongoCall([NoCall EXCEPT !.op = "listRegisteredUsers",
                             !.storageOk = storageOk],
              MongoFaceValidationSystem_listRegisteredUsers(collection, handle, storageOk))

MongoSystemRemoveUser ==
  \E userId \in UserIds, storageOk \in StorageAnswers :
    MongoCall([NoCall EXCEPT !.op = "removeUser", !.userId = userId,
                             !.storageOk = storageOk],
              MongoFaceValidationSystem_removeUser(collection, handle, storageOk, userId))

Next ==
  \/ Tick
  \/ RegisterUser
  \/ ValidateUser
  \/ ListRegisteredUsers
  \/ SystemRemoveUser
  \/ Initialize
  \/ Shutdown
  \/ MongoRegisterUser
  \/ MongoValidateUser
  \/ RecognizeUser
  \/ MongoListRegisteredUsers
  \/ MongoSystemRemoveUser

Spec == StoreInit /\ [][Next]_vars

\* registrations, validations and removals with the images that have a face
RegisterFace == RegisterUserWith(FaceImages)

ValidateFace == ValidateUserWith(FaceImages)

MongoRegisterFace == MongoRegisterUserWith(FaceImages)

MongoValidateFace == MongoValidateUserWith(FaceImages)

RegisterValidateNext ==
  \/ Tick
  \/ RegisterFace
  \/ ValidateFace
  \/ SystemRemoveUser
  \/ Initialize
  \/ MongoRegisterFace
  \/ MongoValidateFace
  \/ MongoSystemRemoveUser

SpecRegisterValidate == StoreInit /\ [][RegisterValidateNext]_vars

(***************************************************************************)
(* The two stores side by side: every call is made on the FaceDatabase and *)
(* on a connected MongoDBFaceDatabase whose storage layer answers, one     *)
(* call after the other; ret holds what each of them returned.             *)
(***************************************************************************)
RetBoth(memory, mongo) == [kind |-> "both", memory |-> memory, mongo |-> mongo]

BothInit ==
  /\ program = "both"
  /\ faces = << >>
  /\ collection = << >>
  /\ client = "connected"
  /\ handle = TRUE
  /\ clock = 0
  /\ call = NoCall
  /\ ret = RetNone
  /\ lastSaved = [u \in UserIds |-> NoRecord]
  /\ GenIdle
  /\ CmpIdle
  /\ DemoIdle
  /\ RaceIdle

\* a call on both stores: memory is [faces, ret], mongo is [docs, ret]
BothCall(op, memory, mongo) ==
  /\ program = "both"
  /\ call' = op
  /\ faces' = memory.faces
  /\ collection' = mongo.docs
  /\ ret' = RetBoth(memory.ret, mongo.ret)
  /\ lastSaved' = SavedAfter(op, memory.ret)
  /\ UNCHANGED << program, client, handle, clock, genVars, cmpVars, demoVars, raceVars >>

BothSaveFaceHash ==
  \E userId \in UserIds, hash \in StoreHashes, metadata \in MetadataSet :
    BothCall([NoCall EXCEPT !.op = "saveFaceHash", !.userId = userId, !.hash = hash,
                            !.metadata = metadata],
             FaceDatabase_saveFaceHash(faces, userId, hash, metadata, clock),
             MongoDBFaceDatabase_saveFaceHash(collection, handle, TRUE, userId, hash,
                                              metadata, clock))

BothValidateFaceHash ==
  \E userId \in UserIds, inputHash \in StoreHashes, threshold \in ThresholdArgs :
    BothCall([NoCall EXCEPT !.op = "validateFaceHash", !.userId = userId,
                            !.hash = inputHash, !.threshold = threshold],
             FaceDatabase_validateFaceHash(faces, userId, inputHash, threshold, clock),
             MongoDBFaceDatabase_validateFaceHash(collection, handle, TRUE, TRUE, userId,
                                                  inputHash, threshold, clock))

BothRemoveUser ==
  \E userId \in UserIds :
    BothCall([NoCall EXCEPT !.op = "removeUser", !.userId = userId],
             FaceDatabase_removeUser(faces, userId),
             MongoDBFaceDatabase_removeUser(collection, handle, TRUE, userId))

BothNext ==
  \/ Tick
  \/ BothSaveFaceHash
  \/ BothValidateFaceHash
  \/ BothRemoveUser

SpecBoth == BothInit /\ [][BothNext]_vars

(***************************************************************************)
(* MongoDBFaceDatabase.validateFaceHash overlapped by other calls.  The    *)
(* validation awaits two requests, findOne and (if the hash is valid)      *)
(* updateOne; saveFaceHash, removeUser and listUsers await one request     *)
(* each, and the collection serves one request at a time.  So the requests *)
(* of other calls may be served between the two of a validation.  The      *)
(* storage layer answers every request here.                               *)
(***************************************************************************)
RaceInit ==
  /\ program = "mongo"
  /\ faces = << >>
  /\ collection = << >>
  /\ client = "connected"
  /\ handle = TRUE
  /\ clock = 0
  /\ call = NoCall
  /\ ret = RetNone
  /\ lastSaved = [u \in UserIds |-> NoRecord]
  /\ GenIdle
  /\ CmpIdle
  /\ DemoIdle
  /\ RaceIdle

\* what a call with one request does to the record of the userId a validation is
\* about, when it is served between the validation's two requests
OverlapAfter(op) ==
  IF inflight.pc = "update" /\ op.userId = inflight.userId
  THEN IF op.op = "removeUser" THEN "removed"
       ELSE IF op.op = "saveFaceHash" THEN "saved"
       ELSE overlap
  ELSE overlap

\* a call with one request: result is [docs, ret]
RaceCall(op, result) ==
  /\ call' = op
  /\ collection' = result.docs
  /\ ret' = result.ret
  /\ lastSaved' = SavedAfter(op, result.ret)
  /\ overlap' = OverlapAfter(op)
  /\ UNCHANGED << program, faces, client, handle, clock, inflight, genVars, cmpVars,
                  demoVars >>

RaceSaveFaceHash ==
  \E userId \in UserIds, hash \in StoreHashes, metadata \in RegisterMetadata :
    RaceCall([NoCall EXCEPT !.op = "saveFaceHash", !.userId = userId, !.hash = hash,
                            !.metadata = metadata],
             MongoDBFaceDatabase_saveFaceHash(collection, handle, TRUE, userId, hash,
                                              metadata, clock))

RaceRemoveUser ==
  \E userId \in UserIds :
    RaceCall([NoCall EXCEPT !.op = "removeUser", !.userId = userId],
             MongoDBFaceDatabase_removeUser(collection, handle, TRUE, userId))

RaceListUsers ==
  RaceCall([NoCall EXCEPT !.op = "listUsers"],
           MongoDBFaceDatabase_listUsers(collection, handle, TRUE))

\* validateFaceHash up to its updateOne: getFaceHash is awaited, the stored hash is
\* compared; an unknown user and a hash that does not correspond are returned at
\* once, a valid hash leaves the updateOne to be requested
ValidateFindOne ==
  /\ inflight.pc = "idle"
  /\ \E userId \in UserIds, inputHash \in StoreHashes, threshold \in ThresholdArgs :
       LET found == MongoDBFaceDatabase_getFaceHash(collection, handle, TRUE, userId).ret
           op == [NoCall EXCEPT !.op = "validateFaceHash", !.userId = userId,
                                !.hash = inputHash, !.threshold = threshold]
       IN  IF found.kind = "null"
           THEN /\ call' = op
                /\ ret' = RetValidation(FALSE, NoNumber, NoNumber, UserNotFound)
                /\ inflight' = NoValidation
           ELSE LET storedRecord == found.val
                    similarity == compareHashes(storedRecord.hash, inputHash)
                    isValid == GreaterOrEqual(similarity, thresholdOrDefault(threshold))
                IN  IF isValid
                    THEN /\ inflight' = [pc |-> "update", userId |-> userId,
                                         hash |-> inputHash, threshold |-> threshold,
                                         similarity |-> SomeNumber(similarity)]
                         /\ UNCHANGED << call, ret >>
                    ELSE /\ call' = op
                         /\ ret' = RetValidation(FALSE, SomeNumber(similarity),
                                                 SomeNumber(thresholdOrDefault(threshold)),
                                                 HashMismatch)
                         /\ inflight' = NoValidation
  /\ overlap' = "none"
  /\ UNCHANGED << program, faces, collection, client, handle, clock, lastSaved,
                  genVars, cmpVars, demoVars >>

\* the updateOne of the validation, and its return
ValidateUpdateOne ==
  /\ inflight.pc = "update"
  /\ collection' = updateOneLastUsed(collection, inflight.userId, clock)
  /\ call' = [NoCall EXCEPT !.op = "validateFaceHash", !.userId = inflight.userId,
                            !.hash = inflight.hash, !.threshold = inflight.threshold]
  /\ ret' = RetValidation(TRUE, inflight.similarity,
                          SomeNumber(thresholdOrDefault(inflight.threshold)), HashValid)
  /\ inflight' = NoValidation
  /\ UNCHANGED << program, faces, client, handle, clock, lastSaved, overlap,
                  genVars, cmpVars, demoVars >>

RaceNext ==
  \/ Tick
  \/ RaceSaveFaceHash
  \/ RaceRemoveUser
  \/ RaceListUsers
  \/ ValidateFindOne
  \/ ValidateUpdateOne

SpecRace == RaceInit /\ [][RaceNext]_vars

(***************************************************************************)
(* demonstrateMongoDBSystem: the statements of its try block in order, its *)
(* catch block, and its finally block, which awaits shutdown().  Each      *)
(* awaited call returns or throws; a throw in the try block goes to the    *)
(* catch block.                                                            *)
(***************************************************************************)
DemoTry ==
  << "loadModels", "initialize", "registerJoao", "registerMaria", "listUsers",
     "validateJoao", "validateMaria", "recognize", "removeMaria", "listAgain" >>

PositionIn(seq, x) == CHOOSE i \in 1..Len(seq) : seq[i] = x

\* a plausible slip: shutdown() is the last statement of the try block, and there is
\* no finally block
DemoFlow_shutdownInTry(at, threw) ==
  IF at = "finally" THEN "done"
  ELSE IF at = "catch" THEN "done"
  ELSE IF threw THEN "catch"
  ELSE IF PositionIn(DemoTry, at) = Len(DemoTry) THEN "finally"
  ELSE DemoTry[PositionIn(DemoTry, at) + 1]

\* the statement that runs after statement `at`, which threw or not
DemoFlow(at, threw) ==
  IF at = "finally" THEN "done"
  ELSE IF at = "catch" THEN "finally"
  ELSE IF threw THEN "catch"
  ELSE IF PositionIn(DemoTry, at) = Len(DemoTry) THEN "finally"
  ELSE DemoTry[PositionIn(DemoTry, at) + 1]

DemoInit ==
  /\ program = "mongo"
  /\ faces = << >>
  /\ collection = << >>
  /\ client = "null"
  /\ handle = FALSE
  /\ clock = 0
  /\ call = NoCall
  /\ ret = RetNone
  /\ lastSaved = [u \in UserIds |-> NoRecord]
  /\ pc = "loadModels"
  /\ thrownAt = "none"
  /\ shutdowns = 0
  /\ GenIdle
  /\ CmpIdle
  /\ RaceIdle

\* an awaited call of the try block on the validation system: result is [docs, ret]
DemoCall(at, op, result) ==
  /\ pc = at
  /\ call' = op
  /\ collection' = result.docs
  /\ ret' = result.ret
  /\ lastSaved' = SavedAfter(op, result.ret)
  /\ pc' = DemoFlow(at, result.ret.kind = "throw")
  /\ thrownAt' = IF result.ret.kind = "throw" THEN at ELSE thrownAt
  /\ UNCHANGED << program, faces, client, handle, clock, shutdowns, genVars, cmpVars, raceVars >>

\* the three loadFromDisk calls: the weights are read, or one of the calls throws
DemoLoadModels ==
  /\ pc = "loadModels"
  /\ \E loaded \in BOOLEAN :
       /\ call' = [NoCall EXCEPT !.op = "loadFromDisk"]
       /\ ret' = IF loaded THEN RetUndefined ELSE RetThrow(LoadError)
       /\ pc' = DemoFlow("loadModels", ~loaded)
       /\ thrownAt' = IF loaded THEN thrownAt ELSE "loadModels"
  /\ UNCHANGED << program, faces, collection, client, handle, clock, lastSaved, shutdowns,
                  genVars, cmpVars, raceVars >>

\* await validationSystem.initialize()
DemoInitialize ==
  /\ pc = "initialize"
  /\ \/ /\ call' = [NoCall EXCEPT !.op = "initialize", !.storageOk = FALSE]
        /\ client' = "created"
        /\ handle' = handle
        /\ ret' = RetThrow(StorageError)
     \/ /\ call' = [NoCall EXCEPT !.op = "initialize", !.storageOk = FALSE]
        /\ client' = "connected"
        /\ handle' = TRUE
        /\ ret' = RetThrow(StorageError)
     \/ /\ call' = [NoCall EXCEPT !.op = "initialize"]
        /\ client' = "connected"
        /\ handle' = TRUE
        /\ ret' = RetUndefined
  /\ pc' = DemoFlow("initialize", ret'.kind = "throw")
  /\ thrownAt' = IF ret'.kind = "throw" THEN "initialize" ELSE thrownAt
  /\ UNCHANGED << program, faces, collection, clock, lastSaved, shutdowns, genVars, cmpVars, raceVars >>

DemoRegister(at, userId, imagePath, metadata) ==
  \E storageOk \in ImageStorageAnswers(imagePath) :
    DemoCall(at,
             [NoCall EXCEPT !.op = "registerUser", !.userId = userId,
                            !.imagePath = imagePath, !.metadata = metadata,
                            !.storageOk = storageOk],
             MongoFaceValidationSystem_registerUser(collection, handle, storageOk, userId,
                                                    imagePath, metadata, clock))

DemoRegisterJoao ==
  DemoRegister("registerJoao", "joao", "bbt1.jpg", [NoMetadata EXCEPT !.name = "João Silva"])

DemoRegisterMaria ==
  DemoRegister("registerMaria", "maria", "bbt2.jpg", [NoMetadata EXCEPT !.name = "Maria Santos"])

DemoList(at) ==
  \E storageOk \in StorageAnswers :
    DemoCall(at,
             [NoCall EXCEPT !.op = "listRegisteredUsers", !.storageOk = storageOk],
             MongoFaceValidationSystem_listRegisteredUsers(collection, handle, storageOk))

DemoListUsers == DemoList("listUsers")

DemoValidate(at, userId, imagePath) ==
  \E storageOk \in ImageStorageAnswers(imagePath) :
   \E updateOk \in UpdateAnswers(storageOk) :
    DemoCall(at,
             [NoCall EXCEPT !.op = "validateUser", !.userId = userId,
                            !.imagePath = imagePath,
                            !.storageOk = storageOk, !.updateOk = updateOk],
             MongoFaceValidationSystem_validateUser(collection, handle, storageOk, updateOk,
                                                    userId, imagePath, clock))

DemoValidateJoao == DemoValidate("validateJoao", "joao", "bbt1.jpg")

DemoValidateMaria == DemoValidate("validateMaria", "maria", "bbt2.jpg")

DemoRecognize ==
  \E storageOk \in ImageStorageAnswers("bbt1.jpg") :
    DemoCall("recognize",
             [NoCall EXCEPT !.op = "recognizeUser", !.imagePath = "bbt1.jpg",
                            !.storageOk = storageOk],
             MongoFaceValidationSystem_recognizeUser(collection, handle, storageOk,
                                                     "bbt1.jpg"))

DemoRemoveMaria ==
  \E storageOk \in StorageAnswers :
    DemoCall("removeMaria",
             [NoCall EXCEPT !.op = "removeUser", !.userId = "maria",
                            !.storageOk = storageOk],
             MongoFaceValidationSystem_removeUser(collection, handle, storageOk, "maria"))

DemoListAgain == DemoList("listAgain")

\* catch (error) { console.error(...) }
DemoCatch ==
  /\ pc = "catch"
  /\ pc' = DemoFlow("catch", FALSE)
  /\ UNCHANGED << thrownAt, shutdowns, storeVars, genVars, cmpVars, raceVars >>

\* finally { await validationSystem.shutdown() }: disconnect closes the client if
\* there is one
DemoShutdown ==
  /\ pc = "finally"
  /\ call' = [NoCall EXCEPT !.op = "shutdown"]
  /\ client' = IF client # "null" THEN "closed" ELSE client
  /\ ret' = RetUndefined
  /\ shutdowns' = shutdowns + 1
  /\ pc' = DemoFlow("finally", FALSE)
  /\ UNCHANGED << program, faces, collection, handle, clock, lastSaved, thrownAt,
                  genVars, cmpVars, raceVars >>

\* the statements of the demonstration
DemoProgram ==
  \/ DemoLoadModels
  \/ DemoInitialize
  \/ DemoRegisterJoao
  \/ DemoRegisterMaria
  \/ DemoListUsers
  \/ DemoValidateJoao
  \/ DemoValidateMaria
  \/ DemoRecognize
  \/ DemoRemoveMaria
  \/ DemoListAgain
  \/ DemoCatch
  \/ DemoShutdown

DemoNext ==
  \/ Tick
  \/ DemoProgram

\* every awaited call settles: the statement that is next is eventually run
SpecDemo == DemoInit /\ [][DemoNext]_vars /\ WF_vars(DemoProgram)

(***************************************************************************)
(* Properties of the Digest Generator (under SpecGen).                     *)
(***************************************************************************)
\* the digest of the descriptor under the options' type, without a length
NaturalDigest ==
  generateFaceHash(resultDescriptor,
                   IF hashOptions = NoOptions THEN NoOptions
                   ELSE [hashOptions EXCEPT !.length = NoLength])

\* the first n characters of s
Prefix(s, n) == [i \in 1..n |-> s[i]]

LengthGiven == hashOptions # NoOptions /\ hashOptions.length # NoLength

C5_TruncationIsPrefix ==
  (hashFirst.some /\ LengthGiven /\ hashOptions.length < Len(NaturalDigest))
    => hashFirst.val = Prefix(NaturalDigest, hashOptions.length)

\* C6: without a length, or with a digest not longer than the length, the digest is
\* returned unchanged; the result is never longer than a cap the digest exceeds, and
\* never longer than the untruncated digest.
C6_CapOnlyShortens ==
  hashFirst.some =>
    /\ (~LengthGiven \/ Len(NaturalDigest) <= hashOptions.length)
         => hashFirst.val = NaturalDigest
    /\ Len(hashFirst.val) <= Len(NaturalDigest)
    /\ (LengthGiven /\ Len(NaturalDigest) > hashOptions.length)
         => Len(hashFirst.val) <= hashOptions.length

(***************************************************************************)
(* Properties of the Comparator (under SpecCompare).                       *)
(***************************************************************************)
\* the number of positions where the two strings hold the same character
MatchingPositions(a, b) == Cardinality({ i \in 1..Len(a) : a[i] = b[i] })

\* x is a fraction in [0,1] equal to count / length
IsFractionOf(x, count, length) ==
  /\ x.den > 0
  /\ 0 <= x.num
  /\ x.num <= x.den
  /\ x.num * length = count * x.den

\* C2 as stated: for any two strings of the same length, the empty pair included,
\* compareHashes returns a fraction in [0,1] equal to the number of matching
\* positions divided by the length.
C2_FractionOfMatches_AnyLength ==
  (cmpResult.some /\ Len(inHash1) = Len(inHash2))
    => IsFractionOf(cmpResult.val, MatchingPositions(inHash1, inHash2), Len(inHash1))

\* C2 as amended: for any two strings of the same nonzero length, compareHashes
\* returns a fraction in [0,1] equal to the number of matching positions divided by
\* the length; for the empty pair it returns NaN (0 / 0).
C2_FractionOfMatches ==
  (cmpResult.some /\ Len(inHash1) = Len(inHash2))
    => IF Len(inHash1) > 0
       THEN IsFractionOf(cmpResult.val, MatchingPositions(inHash1, inHash2), Len(inHash1))
       ELSE cmpResult.val = NaN

\* C2's case: two strings of the same length that agree at some positions only
C2_Witness ==
  /\ cmpResult.some
  /\ Len(inHash1) = Len(inHash2)
  /\ Len(inHash1) = MaxHashLen
  /\ inHash1[1] # inHash2[1]
  /\ inHash1[2] = inHash2[2]
  /\ Greater(cmpResult.val, Zero)
  /\ Greater(One, cmpResult.val)

\* C3: compareHashes(d, d) is exactly 1 for every digest d of nonzero length.
C3_SelfSimilarityIsOne ==
  (cmpResult.some /\ inHash1 = inHash2 /\ Len(inHash1) > 0) => cmpResult.val = One

\* C3's case: a string of several characters compared with itself
C3_Witness ==
  /\ cmpResult.some
  /\ inHash1 = inHash2
  /\ Len(inHash1) = MaxHashLen
  /\ cmpResult.val = One

\* C4: compareHashes returns 0 whenever the two strings differ in length, however
\* many leading characters they share.
C4_DifferentLengthsGiveZero ==
  (cmpResult.some /\ Len(inHash1) # Len(inHash2)) => cmpResult.val = Zero

\* C4's case: one string is a proper prefix of the other
C4_Witness ==
  /\ cmpResult.some
  /\ Len(inHash1) > 0
  /\ Len(inHash1) < Len(inHash2)
  /\ inHash1 = SubSeq(inHash2, 1, Len(inHash1))
  /\ cmpResult.val = Zero

(***************************************************************************)
(* Properties of the Record Store, under SpecSaveRemove and SpecStore.     *)
(***************************************************************************)
\* the records the store holds, in its order
StoredRecords ==
  IF program = "memory" THEN [i \in 1..Len(faces) |-> faces[i].value] ELSE collection

\* where the store holds the record of userId, 0 if it holds none
StoredIndex(userId) == DocIndex(StoredRecords, userId)

\* the userIds saved and not removed since
SavedIds == { u \in UserIds : lastSaved[u].some }

\* C7: Record Store map invariant.  After any sequence of saveFaceHash and removeUser
\* calls the store holds at most one record per userId; the userIds it holds are those
\* saved and not removed since, and listUsers returns exactly those, each once; the
\* record it holds for u, which getFaceHash(u) returns, is the record the most recent
\* saveFaceHash(u) returned; a saveFaceHash on the in-memory store never fails, and a
\* saveFaceHash that returns leaves as the record of the userId the whole record it
\* built (hash, metadata, createdAt, lastUsed), whatever was there.
C7_MapInvariant ==
  /\ \A i, j \in 1..Len(StoredRecords) :
       i # j => StoredRecords[i].userId # StoredRecords[j].userId
  /\ program = "memory" => \A i \in 1..Len(faces) : faces[i].key = faces[i].value.userId
  /\ \A u \in UserIds :
       IF lastSaved[u].some
       THEN /\ StoredIndex(u) # 0
            /\ StoredRecords[StoredIndex(u)] = lastSaved[u].val
       ELSE StoredIndex(u) = 0
  /\ (call.op = "listUsers" /\ ret.kind = "list") =>
       /\ Len(ret.list) = Cardinality(SavedIds)
       /\ program = "memory" => { ret.list[i] : i \in 1..Len(ret.list) } = SavedIds
       /\ program = "mongo" => { ret.list[i].userId : i \in 1..Len(ret.list) } = SavedIds
  /\ (call.op = "getFaceHash" /\ ret.kind # "throw") =>
       IF lastSaved[call.userId].some
       THEN ret = RetRecord(lastSaved[call.userId].val)
       ELSE ret = IF program = "memory" THEN RetUndefined ELSE RetNull
  /\ (call.op = "saveFaceHash" /\ program = "memory") => ret.kind = "record"
  /\ (call.op = "saveFaceHash" /\ ret.kind = "record") =>
       /\ StoredRecords[StoredIndex(call.userId)] = ret.val
       /\ ret.val.userId = call.userId
       /\ ret.val.hash = call.hash
       /\ ret.val.metadata = call.metadata
       /\ ret.val.createdAt = ret.val.lastUsed

\* C7 happens: a saveFaceHash has replaced the record of the first userId saved, after
\* the second userId was saved, with another hash and later timestamps
C7_Witness ==
  /\ program = "memory"
  /\ call.op = "saveFaceHash"
  /\ Len(faces) = 2
  /\ faces[1].key = call.userId
  /\ faces[1].value.createdAt > faces[2].value.createdAt
  /\ faces[1].value.hash # faces[2].value.hash
  /\ faces[1].value.metadata # NoMetadata

\* the score of the i-th stored document against the digest of the call
ScoreOf(i) == compareHashes(collection[i].hash, call.hash)

\* the documents at or above the threshold of the call
Hits ==
  { i \in 1..Len(collection) :
      GreaterOrEqual(ScoreOf(i), thresholdOrDefault(call.threshold)) }

FindReturned == call.op = "findUserByHash" /\ ret.kind # "throw"

\* C8: a findUserByHash that returns gives null exactly when no stored record scores
\* at or above the threshold; otherwise it gives the userId, the similarity and the
\* metadata of the first record in scan order that does, the similarity being that
\* record's score.
C8_FirstAtOrAboveThreshold ==
  FindReturned =>
    IF Hits = { }
    THEN ret = RetNull
    ELSE LET first == CHOOSE i \in Hits : \A j \in Hits : i <= j
         IN  ret = RetMatch(collection[first].userId, ScoreOf(first),
                            collection[first].metadata)

\* C8 happens: the scan passed over the first document, below the threshold, and
\* returned the second
C8_Witness ==
  /\ FindReturned
  /\ ret.kind = "match"
  /\ Len(collection) = 2
  /\ ret.userId = collection[2].userId

\* C9 as stated: whenever findUserByHash returns a record, no stored record has a
\* strictly higher score against the input digest.
C9_BestMatch ==
  (FindReturned /\ ret.kind = "match") =>
    \A i \in 1..Len(collection) : ~Greater(ScoreOf(i), ret.similarity)

\* C9 as the code has it: whenever findUserByHash returns a record, no record before
\* it in scan order scores at or above the threshold, so none before it has a
\* strictly higher score; a record after it may.
C9_NoEarlierMatch ==
  (FindReturned /\ ret.kind = "match") =>
    \A i \in 1..(DocIndex(collection, ret.userId) - 1) :
      /\ ~GreaterOrEqual(ScoreOf(i), thresholdOrDefault(call.threshold))
      /\ ~Greater(ScoreOf(i), ret.similarity)

\* C9 happens: findUserByHash returned the first document although the second scores
\* strictly higher
C9_Witness ==
  /\ FindReturned
  /\ ret.kind = "match"
  /\ Len(collection) = 2
  /\ ret.userId = collection[1].userId
  /\ Greater(ScoreOf(2), ret.similarity)

(***************************************************************************)
(* Properties of the Validation System, under Spec.                        *)
(***************************************************************************)
\* a call of registerUser, validateUser or recognizeUser whose image loads and shows
\* no face
NoFaceCall(c) ==
  /\ c.op \in { "registerUser", "validateUser", "recognizeUser" }
  /\ loadImage(c.imagePath)
  /\ ~detectSingleFace(c.imagePath).found

\* C10: when the detector finds no face, registerUser, validateUser and recognizeUser
\* throw 'Nenhuma face detectada na imagem' and the step leaves the Record Store as
\* it was.
C10_NoFaceFailsAndStoreUnchanged ==
  [][NoFaceCall(call') =>
       /\ ret' = RetThrow(NoFaceDetected)
       /\ faces' = faces
       /\ collection' = collection]_vars

\* C10 happens: a call on an image without a face has thrown, with records in the store
C10_Witness ==
  /\ NoFaceCall(call)
  /\ ret = RetThrow(NoFaceDetected)
  /\ Len(StoredRecords) = 2


(***************************************************************************)
(* Storage failures, under Spec.                                           *)
(***************************************************************************)
\* the digest a validation compares the stored digest with
InputHash(c) == IF c.op = "validateUser" THEN detected[c.imagePath].hash ELSE c.hash

\* the latest call made a request on the collection
RequestMade ==
  /\ program = "mongo"
  /\ handle
  /\ call.op \notin { "none", "connect", "initialize", "disconnect", "shutdown" }
  /\ call.imagePath = "none" \/ detected[call.imagePath].kind = "hash"

\* the latest call, a validation, found the record and found it valid: it requested
\* the updateOne
UpdateRequested ==
  /\ RequestMade
  /\ call.op \in { "validateFaceHash", "validateUser" }
  /\ call.storageOk
  /\ DocIndex(collection, call.userId) # 0
  /\ GreaterOrEqual(compareHashes(collection[DocIndex(collection, call.userId)].hash,
                                  InputHash(call)),
                    thresholdOrDefault(call.threshold))

\* the storage layer raised an error inside the latest call
StorageRaised ==
  /\ program = "mongo"
  /\ \/ call.op \in { "connect", "initialize" } /\ ~call.storageOk
     \/ RequestMade /\ ~call.storageOk
     \/ UpdateRequested /\ ~call.updateOk

\* C11: an error the storage layer raises inside a call of the MongoDB-backed store
\* (connect, saveFaceHash, getFaceHash, validateFaceHash, listUsers, removeUser,
\* findUserByHash), reached directly or through initialize, registerUser,
\* validateUser, recognizeUser, listRegisteredUsers or removeUser, is what the call
\* throws: it is never swallowed and never turned into a returned value.
C11_StorageErrorsPropagate == StorageRaised => ret = RetThrow(StorageError)

\* C11 happens: validateUser found the user valid, the updateOne raised, and
\* validateUser threw
C11_Witness ==
  /\ call.op = "validateUser"
  /\ UpdateRequested
  /\ ~call.updateOk
  /\ ret = RetThrow(StorageError)


(***************************************************************************)
(* The rolling hash and the algorithm selection, under SpecGen.            *)
(***************************************************************************)
\* 31 * h + c modulo 2^32, on the halves of h
TimesThirtyOnePlus(h, c) ==
  LET lo == h[2] * 31 + c
      hi == h[1] * 31 + (lo \div Half)
  IN  << hi % Half, lo % Half >>

\* h <- 31 * h + charCode over the characters of str
RECURSIVE Horner(_, _)
Horner(h, str) ==
  IF str = << >> THEN h
  ELSE LET next == TimesThirtyOnePlus(h, charCodeAt(Head(str)))
       IN  IF next[1] >= 0 THEN Horner(next, Tail(str)) ELSE next

\* |v| for the signed 32-bit integer v with pattern h: 2^32 - h when h >= 2^31
Magnitude(h) ==
  IF h[1] < Half \div 2 THEN h
  ELSE IF h[2] = 0 THEN << Half - h[1], 0 >>
  ELSE << Half - 1 - h[1], Half - h[2] >>

\* the eight hexadecimal digits of a magnitude below 2^32, four per half
EightHexDigits(m) ==
  [i \in 1..8 |->
     HexDigits[((IF i <= 4 THEN m[1] \div (16 ^ (4 - i)) ELSE m[2] \div (16 ^ (8 - i))) % 16)
               + 1]]

\* C12: the digest of generateSimpleHash begins with exactly 8 lowercase hexadecimal
\* digits, the zero-padded hexadecimal form of |h|, where h is 31 * h + charCode
\* wrapped to a signed 32-bit integer over the characters of the serialized
\* descriptor, from 0; the suffix of two digits per value (of the first 16 values)
\* follows at the ninth character, also when h is -2^31.
C12_RollingHashPrefix ==
  allHashes.some =>
    /\ Len(allHashes.simple) = 8 + 2 * Min(SliceLen, Len(resultDescriptor))
    /\ Prefix(allHashes.simple, 8)
         = EightHexDigits(Magnitude(Horner(<< 0, 0 >>, join(resultDescriptor))))

\* C12 happens: the rolling hash ended at -2^31 and the prefix is 80000000
C12_Witness ==
  /\ allHashes.some
  /\ resultDescriptor \in MinHashDescriptors
  /\ Prefix(allHashes.simple, 8) = << "8", "0", "0", "0", "0", "0", "0", "0" >>


\* the type the call selects: 'simple' when the options are omitted
SelectedType == IF hashOptions = NoOptions THEN "simple" ELSE hashOptions.type

\* what generateAllHashes reports for the selected type, the rolling hash for a type
\* that is none of the five
ReportedDigest ==
  CASE SelectedType = "sha256" -> allHashes.sha256
    [] SelectedType = "md5" -> allHashes.md5
    [] SelectedType = "base64" -> allHashes.base64
    [] SelectedType = "hex" -> allHashes.hex
    [] OTHER -> allHashes.simple

\* s is the beginning of t
IsPrefix(s, t) == Len(s) <= Len(t) /\ s = SubSeq(t, 1, Len(s))

\* C13: generateAllHashes reports under simple, sha256, md5, base64 and hex the
\* results of the five generators; generateFaceHash returns the digest reported for
\* its type, whole when no length is given and cut at the end otherwise; with the
\* options omitted or a type that is none of the five this is the rolling hash.
C13_AlgorithmSelection ==
  /\ allHashes.some =>
       /\ allHashes.simple = generateSimpleHash(resultDescriptor)
       /\ allHashes.sha256 = generateSHA256Hash(resultDescriptor)
       /\ allHashes.md5 = generateMD5Hash(resultDescriptor)
       /\ allHashes.base64 = generateBase64Hash(resultDescriptor)
       /\ allHashes.hex = generateHexHash(resultDescriptor)
  /\ (allHashes.some /\ hashFirst.some) =>
       /\ IsPrefix(hashFirst.val, ReportedDigest)
       /\ ~LengthGiven => hashFirst.val = ReportedDigest

\* C13 happens: a call with a type outside the five, and no length, returned the
\* rolling hash of a descriptor whose five digests all differ
C13_Witness ==
  /\ allHashes.some
  /\ hashFirst.some
  /\ hashOptions # NoOptions
  /\ hashOptions.type = "other"
  /\ hashOptions.length = NoLength
  /\ hashFirst.val = allHashes.simple
  /\ Cardinality({ allHashes.simple, allHashes.sha256, allHashes.md5, allHashes.base64,
                   allHashes.hex }) = 5


(***************************************************************************)
(* Validation, under SpecStore and Spec.                                   *)
(***************************************************************************)
\* the latest call is a validation that returned
ValidationReturned ==
  call.op \in { "validateFaceHash", "validateUser" } /\ ret.kind = "validation"

Answered(c) ==
  /\ c.imagePath = "none" \/ detected[c.imagePath].kind = "hash"
  /\ program = "memory" \/ (handle /\ c.storageOk)

C16_ValidationFrame ==
  [][call'.op \in { "validateFaceHash", "validateUser" }
     => /\ Len(StoredRecords') = Len(StoredRecords)
        /\ program = "memory" => MapKeys(faces') = MapKeys(faces)
        /\ \A i \in 1..Len(StoredRecords) :
             /\ StoredRecords'[i].userId = StoredRecords[i].userId
             /\ StoredRecords'[i].hash = StoredRecords[i].hash
             /\ StoredRecords'[i].metadata = StoredRecords[i].metadata
             /\ StoredRecords'[i].createdAt = StoredRecords[i].createdAt
             /\ StoredRecords'[i] # StoredRecords[i]
                  => /\ StoredRecords[i].userId = call'.userId
                     /\ ret'.kind = "validation"
                     /\ ret'.valid]_vars

\* C16 happens: with two users registered, a validation that passed has moved the
\* lastUsed of the validated user's record past its createdAt
C16_Witness ==
  /\ ValidationReturned
  /\ ret.valid
  /\ Len(StoredRecords) = 2
  /\ StoredRecords[StoredIndex(call.userId)].lastUsed
       > StoredRecords[StoredIndex(call.userId)].createdAt


\* the store answered the requests of call c
StoreAnswered(c) == Answered(c) /\ (program = "mongo" => c.updateOk)

\* validateUser was called with an image that yields the descriptor of the latest
\* registration of the user, and no removal of the user came after that registration
SameFaceValidated ==
  /\ call.op = "validateUser"
  /\ StoreAnswered(call)
  /\ lastSaved[call.userId].some
  /\ detectSingleFace(call.imagePath).descriptor = lastSaved[call.userId].descriptor

\* C17: validateUser(u, image') after a successful registerUser(u, image), with an
\* image' that yields the same descriptor and no registerUser(u) or removeUser(u) in
\* between, returns valid = true with similarity 1, whatever was done for other users.
C17_RegisterThenValidate ==
  SameFaceValidated
    => /\ ret.kind = "validation"
       /\ ret.valid
       /\ ret.similarity = SomeNumber(Quotient(1, 1))

\* C17 happens: a user registered with one image is validated with another image of
\* the same face, after another user was registered
C17_Witness ==
  /\ SameFaceValidated
  /\ lastSaved[call.userId].val.metadata.confidence
       # detectSingleFace(call.imagePath).score
  /\ Len(StoredRecords) = 2
  /\ StoredIndex(call.userId) = 1
  /\ ret.kind = "validation"
  /\ ret.valid


\* what a lookup of a userId without a record returns
NotStored == IF program = "memory" THEN RetUndefined ELSE RetNull

NotFoundValidation ==
  [kind |-> "validation", valid |-> FALSE, similarity |-> NoNumber,
   threshold |-> NoNumber, reason |-> "Usuário não encontrado"]

\* C18: a step of removeUser(u) (the clock stands still in the step of a call)
\* returns true exactly when u had a record, leaves u
\* without a record and every other record as it was; as long as u has no record,
\* getFaceHash(u) finds none and validateFaceHash(u, ...) returns 'Usuário não
\* encontrado', and only a save for u gives u a record again.
C18_RemoveUser ==
  [][/\ (call'.op = "removeUser" /\ Answered(call') /\ clock' = clock)
          => /\ ret' = RetBool(StoredIndex(call'.userId) # 0)
             /\ StoredRecords'
                  = SelectSeq(StoredRecords, LAMBDA r : r.userId # call'.userId)
     /\ \A u \in UserIds :
          StoredIndex(u) = 0
            => /\ (call'.op = "getFaceHash" /\ call'.userId = u /\ Answered(call'))
                    => ret' = NotStored
               /\ (call'.op \in { "validateFaceHash", "validateUser" }
                     /\ call'.userId = u /\ Answered(call'))
                    => ret' = NotFoundValidation
               /\ StoredIndex(u)' # 0
                    => /\ call'.op \in { "saveFaceHash", "registerUser" }
                       /\ call'.userId = u]_vars

\* C18 happens: removeUser returned true for one of two users; the other one's
\* record is the only one left
C18_Witness ==
  /\ call.op = "removeUser"
  /\ ret = RetBool(TRUE)
  /\ StoredIndex(call.userId) = 0
  /\ Len(StoredRecords) = 1
  /\ ~lastSaved[call.userId].some
  /\ \E u \in UserIds : lastSaved[u].some /\ StoredRecords[1] = lastSaved[u].val


\* C19: demonstrateMongoDBSystem comes to its end on every path, shutdown() is never
\* called twice, and at the end it has been called once; the shutdown step closes the
\* client if connect had created one and leaves the null client alone, and that is
\* the case exactly when loading the models threw.
C19_ShutdownExactlyOnce ==
  /\ <>(pc = "done")
  /\ [](shutdowns <= 1)
  /\ [](pc = "done" => /\ shutdowns = 1
                       /\ (client = "null") = (thrownAt = "loadModels")
                       /\ (client = "closed") = (thrownAt # "loadModels"))
  /\ [][(pc = "finally" /\ pc' = "done")
          => client' = (IF client \in { "created", "connected" } THEN "closed" ELSE client)]_vars

\* C19 happens: a call in the middle of the try block threw (the update of
\* validateUser), and the demonstration ended with one shutdown and the client closed
C19_Witness ==
  /\ pc = "done"
  /\ thrownAt = "validateMaria"
  /\ shutdowns = 1
  /\ client = "closed"
  /\ Len(collection) = 2


\* the userId, hash and metadata of a record
Content(record) ==
  [userId |-> record.userId, hash |-> record.hash, metadata |-> record.metadata]

\* C20: after every step of the same calls on both stores, the stores hold records
\* with the same userId, hash and metadata (in the same order), each validateFaceHash
\* returned the same valid, similarity, threshold and reason from both, and each
\* removeUser the same boolean.
C20_StoresInterchangeable ==
  /\ Len(faces) = Len(collection)
  /\ \A i \in 1..Len(faces) : Content(faces[i].value) = Content(collection[i])
  /\ call.op = "validateFaceHash"
       => /\ ret.memory.kind = "validation"
          /\ ret.mongo = ret.memory
  /\ call.op = "removeUser"
       => /\ ret.memory.kind = "bool"
          /\ ret.mongo = ret.memory

\* C20 happens: with two users saved in both stores, a validation passed in both and
\* moved the lastUsed of the user's record in both
C20_Witness ==
  /\ program = "both"
  /\ call.op = "validateFaceHash"
  /\ ret.memory.kind = "validation"
  /\ ret.memory.valid
  /\ ret.mongo.valid
  /\ Len(faces) = 2
  /\ Len(collection) = 2
  /\ \E i \in 1..2 :
       /\ faces[i].key = call.userId
       /\ faces[i].value.lastUsed > faces[i].value.createdAt
       /\ collection[i].lastUsed > collection[i].createdAt


\* the userIds listUsers would return
ListedIds == { findProjected(collection)[i].userId : i \in 1..Len(collection) }

\* C21: whatever calls are served between the findOne and the updateOne of a
\* validation, a user removed and not saved since has no document and is not listed
\* (also once the validation has returned), and a user saved since has one document,
\* with the userId, hash, metadata and createdAt of the latest save.
C21_NoResurrection ==
  /\ \A u \in UserIds :
       IF lastSaved[u].some
       THEN /\ DocIndex(collection, u) # 0
            /\ Content(collection[DocIndex(collection, u)]) = Content(lastSaved[u].val)
            /\ collection[DocIndex(collection, u)].createdAt = lastSaved[u].val.createdAt
       ELSE /\ DocIndex(collection, u) = 0
            /\ u \notin ListedIds
  /\ Len(collection) = Cardinality(SavedIds)
  /\ (call.op = "listUsers" /\ ret.kind = "list")
       => { ret.list[i].userId : i \in 1..Len(ret.list) } = SavedIds

\* C21 happens: a validation read the record of a user, removeUser deleted it, and
\* then the validation requested its update and returned valid; the user has no
\* document, the other user's is the only one
C21_Witness ==
  /\ call.op = "validateFaceHash"
  /\ ret.kind = "validation"
  /\ ret.valid
  /\ inflight.pc = "idle"
  /\ overlap = "removed"
  /\ DocIndex(collection, call.userId) = 0
  /\ Len(collection) = 1

=============================================================================
